---- MODULE Spec2Model ----
(***************************************************************************)
(* Model of the cache store (intelligent_cache.py, class IntelligentCache) *)
(* and of the admission controller (rate_limiter.py, class RateLimiter).   *)
(*                                                                         *)
(* Every public method of IntelligentCache takes the store's RLock for its *)
(* whole body, and RateLimiter.is_allowed / clear_client take the          *)
(* limiter's Lock for every access to the client table, so each call is    *)
(* one atomic action here.  time.time() is the integer clock `now`.        *)
(***************************************************************************)
EXTENDS Integers, Sequences, FiniteSets, TLC

VARIABLES
    _cache,      \* IntelligentCache._cache: OrderedDict key -> value
    _metadata,   \* IntelligentCache._metadata: dict key -> metadata
    _stats,      \* IntelligentCache._stats
    file,        \* content of persistence_file on disk
    last,        \* the last call made on the cache: arguments and result
    nops,        \* number of calls made so far (bounds the counters)
    now,         \* time.time()
    clients,     \* RateLimiter.clients: client_id -> requests, blocked_until
    shadow,      \* the client table of a second run that makes no 'api' call
    calls,       \* per client, the is_allowed calls made so far and their results
    profile_user_data,    \* the userData the active profile was saved with
    opportunities,        \* table opportunities: id -> status, confirmation_details
    participation_history,\* table participation_history, in insertion order
    participation_queue,  \* APIServer.participation_queue (numbers of jobs)
    unfinished_tasks,     \* participation_queue.unfinished_tasks
    stop_worker_event,    \* APIServer.stop_worker_event
    worker,               \* the worker thread: position in _worker and its locals
    handlers,             \* the request threads running handle_participation
    shutdown_pc,          \* position of the thread that runs APIServer.shutdown
    jobs,                 \* every job dict handed to put, in the order of the puts
    audit,                \* per job: the status writes, history entries, outcome
    started,              \* the jobs the worker took from the queue, in order
    in_flight,            \* the jobs taken from the queue and not yet task_done
    nrequests,            \* number of requests received so far
    db_failures,          \* number of database calls that raised so far
    proxy_index,          \* APIServer.proxy_index
    config,               \* the 'proxies' section of config.json
    proxy_log,            \* the calls of get_proxy made so far and their results
    profiles,             \* table profiles: id -> is_active, its opportunities
    program,              \* the server that was started: app.py or server.py
    api_last,             \* the last request made to the API and its response
    napi,                 \* number of requests made to the API so far
    config_lock,          \* ConfigHandler.lock: 0 when free, else the thread holding it
    self_config,          \* ConfigHandler.config ('proxies' section)
    cthreads,             \* the threads calling ConfigHandler: position and locals
    limiter_lock,         \* RateLimiter.lock: 0 when free, else the thread holding it
    self_limits,          \* RateLimiter.limits as update_limits leaves it
    lthreads,             \* the threads calling RateLimiter: position and locals
    nlocked               \* number of calls the threads made to RateLimiter so far

cacheVars == <<_cache, _metadata, _stats, file, last, nops>>
limiterVars == <<clients, shadow, calls>>
databaseVars == <<profile_user_data, opportunities, participation_history>>
queueVars == <<participation_queue, unfinished_tasks, jobs>>
threadVars == <<stop_worker_event, worker, handlers, shutdown_pc>>
historyVars == <<audit, started, in_flight, nrequests, db_failures>>
proxyVars == <<proxy_index, config, proxy_log>>
pipelineVars == <<databaseVars, queueVars, threadVars, historyVars, proxyVars>>
apiVars == <<profiles, program, api_last, napi>>
configVars == <<config_lock, self_config, cthreads>>
lockedVars == <<limiter_lock, self_limits, lthreads, nlocked>>
concVars == <<configVars, lockedVars>>

---------------------------------------------------------------------------
(* Bounds of the model.                                                    *)

\* The cache: the clock runs to MaxTime and MaxOps calls are made.
MaxTime == 2
MaxOps == 4
MaxFairOps == 2
\* The limiter: the clock runs to MaxClock and MaxCalls calls are made.
MaxClock == 4
MaxCalls == 5
\* Configuration of the instance (api_cache: 500 entries, 50 MB, 300 s),
\* scaled down so that both bounds are reached.
max_size == 2
max_memory_bytes == 5
default_ttl == 2

enable_persistence == TRUE

---------------------------------------------------------------------------
(* Inputs.                                                                 *)

\* Keys are strings, written as sequences of characters.
Keys == {<<"a">>, <<"a", "b">>, <<"b">>}

Str(body) == [kind |-> "str", body |-> body]
Tuple(body) == [kind |-> "tuple", body |-> body]
List(body) == [kind |-> "list", body |-> body]
None == [kind |-> "None", body |-> <<>>]

\* Values handed to set: the string "x" (1 byte) and the tuple (7,), whose
\* estimated size is len("(7,)") = 4.
Values == {Str(<<"x">>), Tuple(<<"7">>)}

\* The ttl argument of set: <<>> is None (use default_ttl), <<n>> is n.
TTLs == {<<>>, <<1>>}

\* Patterns handed to invalidate_pattern: literal characters, "." (any
\* character) and a leading "^" (anchor at the start of the key).
Patterns == {<<"a">>, <<"b">>, <<"^", "b">>, <<".", "b">>}

---------------------------------------------------------------------------
(* dict / OrderedDict: a sequence of [k, v] in insertion order.            *)

DictHas(d, k) == \E i \in DOMAIN d : d[i].k = k

DictGet(d, k) == d[CHOOSE i \in DOMAIN d : d[i].k = k].v

\* d[k] = v: an existing key keeps its position, a new key goes last.
DictSet(d, k, v) ==
    IF DictHas(d, k)
    THEN [i \in DOMAIN d |-> IF d[i].k = k THEN [k |-> k, v |-> v] ELSE d[i]]
    ELSE Append(d, [k |-> k, v |-> v])

DictDel(d, k) == SelectSeq(d, LAMBDA e : e.k # k)

DictKeys(d) == [i \in DOMAIN d |-> d[i].k]

KeySet(d) == {d[i].k : i \in DOMAIN d}

RECURSIVE SumSizes(_)
SumSizes(md) == IF md = <<>> THEN 0 ELSE Head(md).v.size + SumSizes(Tail(md))

---------------------------------------------------------------------------
(* Pure helpers of IntelligentCache.                                       *)

\* len(str(())) = len("()") = 2 and len(json.dumps([])) = len("[]") = 2;
\* a tuple or list of n >= 1 one-digit numbers (the body holds their
\* digits) prints as "(1,)" (4
\* characters) or with ", " between the items (3n characters).
_estimate_size(value) ==
    CASE value.kind = "str" -> Len(value.body)
      [] value.kind = "list" ->
            IF value.body = <<>> THEN 2 ELSE 3 * Len(value.body)
      [] value.kind = "tuple" ->
            IF value.body = <<>> THEN 2
            ELSE IF Len(value.body) = 1 THEN 4 ELSE 3 * Len(value.body)
      [] OTHER -> 4    \* len(str(None)) = len("None")

Expired_le(metadata, current_time) == metadata.expires_at <= current_time

\* metadata.get('expires_at', inf) < current_time
Expired(metadata, current_time) == metadata.expires_at < current_time

\* json.dump followed by json.load of a value: a tuple comes back as a list.
JsonRoundTrip(value) ==
    IF value.kind = "tuple" THEN List(value.body) ELSE value

\* regex.search(k) for a pattern of literals, "." and a leading "^".
MatchAt(p, k, i) ==
    /\ i + Len(p) - 1 <= Len(k)
    /\ \A j \in DOMAIN p : p[j] = "." \/ p[j] = k[i + j - 1]

re_search(p, k) ==
    IF p # <<>> /\ Head(p) = "^"
    THEN MatchAt(Tail(p), k, 1)
    ELSE \E i \in 1..(Len(k) + 1) : MatchAt(p, k, i)

---------------------------------------------------------------------------
(* Methods of IntelligentCache, as functions of the store                  *)
(* s = [cache, metadata, stats] and of current_time.                       *)

Self == [cache |-> _cache, metadata |-> _metadata, stats |-> _stats]

_remove_key_leak(s, key) ==
    [s EXCEPT !.cache = DictDel(@, key), !.metadata = DictDel(@, key)]

_remove_key(s, key) ==
    LET c == IF DictHas(s.cache, key) THEN DictDel(s.cache, key) ELSE s.cache
    IN  IF DictHas(s.metadata, key)
        THEN [s EXCEPT !.cache = c,
                       !.metadata = DictDel(@, key),
                       !.stats.memory_usage = @ - DictGet(s.metadata, key).size]
        ELSE [s EXCEPT !.cache = c]

_remove_expired(s, key) == _remove_key(s, key)

_evict_lru_none(s) == s

_evict_lru(s) ==
    IF s.cache # <<>>
    THEN LET oldest_key == s.cache[1].k
         IN  [_remove_key(s, oldest_key) EXCEPT !.stats.evictions = @ + 1]
    ELSE s

\* The keys of _metadata whose entry is expired, in the dict's order.
expired_keys(s, current_time) ==
    SelectSeq(DictKeys(s.metadata),
              LAMBDA k : Expired(DictGet(s.metadata, k), current_time))

\* The loop over expired_keys of _free_memory, with its early return.
RECURSIVE FreeExpired(_, _, _, _)
FreeExpired(s, keys, freed, required_bytes) ==
    IF keys = <<>>
    THEN [s |-> s, freed |-> freed, done |-> FALSE]
    ELSE LET key == Head(keys)
             f == freed + DictGet(s.metadata, key).size
             s1 == _remove_expired(s, key)
         IN  IF f >= required_bytes
             THEN [s |-> s1, freed |-> f, done |-> TRUE]
             ELSE FreeExpired(s1, Tail(keys), f, required_bytes)

\* The while loop of _free_memory over the least recently used entries.
RECURSIVE FreeLRU(_, _, _)
FreeLRU(s, freed, required_bytes) ==
    IF freed < required_bytes /\ s.cache # <<>>
    THEN LET oldest_key == s.cache[1].k
         IN  FreeLRU(_remove_key(s, oldest_key),
                     freed + DictGet(s.metadata, oldest_key).size,
                     required_bytes)
    ELSE [s |-> s, freed |-> freed]

_free_memory_nothing(s, required_bytes, current_time) == [s |-> s, ok |-> TRUE]

_free_memory(s, required_bytes, current_time) ==
    LET e == FreeExpired(s, expired_keys(s, current_time), 0, required_bytes)
    IN  IF e.done
        THEN [s |-> e.s, ok |-> TRUE]
        ELSE LET l == FreeLRU(e.s, e.freed, required_bytes)
             IN  [s |-> l.s, ok |-> l.freed >= required_bytes]

get(s, key, current_time) ==
    IF ~DictHas(s.cache, key)
    THEN [s |-> [s EXCEPT !.stats.misses = @ + 1], val |-> None]
    ELSE LET metadata == DictGet(s.metadata, key)
             value == DictGet(s.cache, key)
         IN  IF Expired(metadata, current_time)
             THEN [s |-> [_remove_expired(s, key) EXCEPT !.stats.misses = @ + 1],
                   val |-> None]
             ELSE [s |-> [s EXCEPT
                            !.cache = Append(DictDel(@, key), [k |-> key, v |-> value]),
                            !.metadata = DictSet(@, key,
                                [metadata EXCEPT !.last_accessed = current_time,
                                                 !.access_count = @ + 1]),
                            !.stats.hits = @ + 1],
                   val |-> value]

set(s, key, value, ttl_arg, current_time) ==
    LET ttl == IF ttl_arg # <<>> THEN ttl_arg[1] ELSE default_ttl
        value_size == _estimate_size(value)
        fm == IF s.stats.memory_usage + value_size > max_memory_bytes
              THEN _free_memory(s, value_size, current_time)
              ELSE [s |-> s, ok |-> TRUE]
    IN  IF ~fm.ok
        THEN [s |-> fm.s, ok |-> FALSE]
        ELSE LET s1 == fm.s
                 s2 == IF DictHas(s1.cache, key)
                       THEN [s1 EXCEPT !.stats.memory_usage =
                                          @ - DictGet(s1.metadata, key).size]
                       ELSE s1
                 s3 == [s2 EXCEPT
                          !.cache = DictSet(@, key, value),
                          !.metadata = DictSet(@, key,
                              [created_at |-> current_time,
                               expires_at |-> current_time + ttl,
                               last_accessed |-> current_time,
                               access_count |-> 1,
                               size |-> value_size,
                               ttl |-> ttl]),
                          !.stats.memory_usage = @ + value_size]
                 s4 == IF Len(s3.cache) > max_size THEN _evict_lru(s3) ELSE s3
             IN  [s |-> s4, ok |-> TRUE]

delete(s, key) ==
    IF DictHas(s.cache, key)
    THEN [s |-> _remove_key(s, key), ok |-> TRUE]
    ELSE [s |-> s, ok |-> FALSE]

clear_keeps_memory(s) ==
    [s EXCEPT !.cache = <<>>, !.metadata = <<>>, !.stats.evictions = 0]

clear(s) ==
    [s EXCEPT !.cache = <<>>, !.metadata = <<>>,
              !.stats.memory_usage = 0, !.stats.evictions = 0]

RECURSIVE RemoveKeys(_, _)
RemoveKeys(s, keys) ==
    IF keys = <<>> THEN s ELSE RemoveKeys(_remove_key(s, Head(keys)), Tail(keys))

invalidate_pattern_prefix(s, pattern) ==
    LET keys_to_remove == SelectSeq(DictKeys(s.cache),
                                    LAMBDA k : MatchAt(pattern, k, 1))
    IN  [s |-> RemoveKeys(s, keys_to_remove), n |-> Len(keys_to_remove)]

invalidate_pattern(s, pattern) ==
    LET keys_to_remove == SelectSeq(DictKeys(s.cache),
                                    LAMBDA k : re_search(pattern, k))
    IN  [s |-> RemoveKeys(s, keys_to_remove), n |-> Len(keys_to_remove)]

cleanup_expired_first(s, current_time) ==
    LET keys == expired_keys(s, current_time)
        first == IF keys = <<>> THEN <<>> ELSE <<Head(keys)>>
    IN  [s |-> [RemoveKeys(s, first) EXCEPT !.stats.last_cleanup = current_time],
         n |-> Len(keys)]

cleanup_expired(s, current_time) ==
    LET keys == expired_keys(s, current_time)
    IN  [s |-> [RemoveKeys(s, keys) EXCEPT !.stats.last_cleanup = current_time],
         n |-> Len(keys)]

\* What _save_to_persistence writes: the unexpired entries, in the order of
\* _cache, each value as json.dump writes it.
_save_to_persistence(s, current_time) ==
    LET live == SelectSeq(s.cache,
                    LAMBDA e : DictGet(s.metadata, e.k).expires_at > current_time)
    IN  [i \in DOMAIN live |->
            [k |-> live[i].k,
             v |-> [value |-> JsonRoundTrip(live[i].v),
                    metadata |-> DictGet(s.metadata, live[i].k)]]]

\* The loop of _load_from_persistence over the items of the file.
RECURSIVE _load_from_persistence(_, _, _)
_load_from_persistence(s, cache_data, current_time) ==
    IF cache_data = <<>> THEN s
    ELSE LET key == Head(cache_data).k
             data == Head(cache_data).v
             s1 == IF data.metadata.expires_at > current_time
                   THEN [s EXCEPT
                           !.cache = DictSet(@, key, data.value),
                           !.metadata = DictSet(@, key, data.metadata),
                           !.stats.memory_usage = @ + data.metadata.size]
                   ELSE s
         IN  _load_from_persistence(s1, Tail(cache_data), current_time)

\* The store __init__ builds before it loads the file.
EmptyStore(current_time) ==
    [cache |-> <<>>, metadata |-> <<>>,
     stats |-> [hits |-> 0, misses |-> 0, evictions |-> 0,
                memory_usage |-> 0, last_cleanup |-> current_time]]

__init___ignores_state(cache_file, current_time) ==
    IF enable_persistence /\ cache_file.state # "missing"
    THEN _load_from_persistence(EmptyStore(current_time), cache_file.data,
                                current_time)
    ELSE EmptyStore(current_time)

__init__(cache_file, current_time) ==
    IF enable_persistence /\ cache_file.state = "ok"
    THEN _load_from_persistence(EmptyStore(current_time), cache_file.data,
                                current_time)
    ELSE EmptyStore(current_time)

---------------------------------------------------------------------------
(* The cache as a state machine.                                           *)

\* The record of a call: op is the method, key its key (or pattern)
\* argument, value the value handed to set or returned by get, ok the
\* boolean result (get: found), n the count returned, before the number
\* of entries the store held when the call was made.
NoCall == [op |-> "none", key |-> <<>>, value |-> None, ok |-> FALSE, n |-> 0,
           before |-> 0]

Call(op, key, value, ok, n) ==
    [op |-> op, key |-> key, value |-> value, ok |-> ok, n |-> n,
     before |-> Len(_cache)]

Assign(s) ==
    /\ _cache' = s.cache
    /\ _metadata' = s.metadata
    /\ _stats' = s.stats

NoFile == [state |-> "missing", data |-> <<>>]

InitCache ==
    /\ _cache = <<>>
    /\ _metadata = <<>>
    /\ _stats = EmptyStore(0).stats
    /\ file = NoFile
    /\ last = NoCall
    /\ nops = 0
    /\ now = 0

Tick ==
    /\ now < MaxTime
    /\ now' = now + 1
    /\ UNCHANGED <<cacheVars, limiterVars, pipelineVars, apiVars, concVars>>

Get ==
    \E key \in Keys :
        LET r == get(Self, key, now)
        IN  /\ nops < MaxOps
            /\ Assign(r.s)
            /\ last' = Call("get", key, r.val, r.val # None, 0)
            /\ nops' = nops + 1
            /\ UNCHANGED <<file, now, limiterVars, pipelineVars, apiVars, concVars>>

Set ==
    \E key \in Keys, value \in Values, ttl \in TTLs :
        LET r == set(Self, key, value, ttl, now)
        IN  /\ nops < MaxOps
            /\ Assign(r.s)
            /\ last' = Call("set", key, value, r.ok, 0)
            /\ nops' = nops + 1
            /\ UNCHANGED <<file, now, limiterVars, pipelineVars, apiVars, concVars>>

Delete ==
    \E key \in Keys :
        LET r == delete(Self, key)
        IN  /\ nops < MaxOps
            /\ Assign(r.s)
            /\ last' = Call("delete", key, None, r.ok, 0)
            /\ nops' = nops + 1
            /\ UNCHANGED <<file, now, limiterVars, pipelineVars, apiVars, concVars>>

Clear ==
    /\ nops < MaxOps
    /\ Assign(clear(Self))
    /\ last' = Call("clear", <<>>, None, TRUE, 0)
    /\ nops' = nops + 1
    /\ UNCHANGED <<file, now, limiterVars, pipelineVars, apiVars, concVars>>

InvalidatePattern ==
    \E pattern \in Patterns :
        LET r == invalidate_pattern(Self, pattern)
        IN  /\ nops < MaxOps
            /\ Assign(r.s)
            /\ last' = Call("invalidate_pattern", pattern, None, TRUE, r.n)
            /\ nops' = nops + 1
            /\ UNCHANGED <<file, now, limiterVars, pipelineVars, apiVars, concVars>>

CleanupExpired ==
    LET r == cleanup_expired(Self, now)
    IN  /\ nops < MaxOps
        /\ Assign(r.s)
        /\ last' = Call("cleanup_expired", <<>>, None, TRUE, r.n)
        /\ nops' = nops + 1
        /\ UNCHANGED <<file, now, limiterVars, pipelineVars, apiVars, concVars>>

\* One round of _cleanup_worker: cleanup_expired, then _save_to_persistence.
\* open() or json.dump may fail: the file is then left as it was, or holds
\* the text written up to the failure, which json.load will not parse
\* (state "corrupt", data the entries that were being written); the error
\* is logged and the store is not touched.
CleanupWorker ==
    \E outcome \in {"saved", "open fails", "write fails"} :
        LET r == cleanup_expired(Self, now)
        IN  /\ nops < MaxOps
            /\ Assign(r.s)
            /\ file' = IF ~enable_persistence \/ outcome = "open fails" THEN file
                       ELSE IF outcome = "write fails"
                            THEN [state |-> "corrupt",
                                  data |-> _save_to_persistence(r.s, now)]
                            ELSE [state |-> "ok",
                                  data |-> _save_to_persistence(r.s, now)]
            /\ last' = Call("_cleanup_worker", <<>>, None, outcome = "saved", r.n)
            /\ nops' = nops + 1
            /\ UNCHANGED <<now, limiterVars, pipelineVars, apiVars, concVars>>

\* The process is started again: __init__ builds an empty store and loads
\* the file the previous run left.
Restart ==
    /\ nops < MaxOps
    /\ Assign(__init__(file, now))
    /\ last' = Call("__init__", <<>>, None, file.state = "ok", 0)
    /\ nops' = nops + 1
    /\ UNCHANGED <<file, now, limiterVars, pipelineVars, apiVars, concVars>>

\* A round of the cleanup thread of a cache that is otherwise left alone:
\* the thread wakes every 300 s whatever the callers do, so its rounds are
\* not taken from the callers' budget of operations.
CleanupRound ==
    \E outcome \in {"saved", "open fails", "write fails"} :
        LET r == cleanup_expired(Self, now)
        IN  /\ Assign(r.s)
            /\ file' = IF ~enable_persistence \/ outcome = "open fails" THEN file
                       ELSE IF outcome = "write fails"
                            THEN [state |-> "corrupt",
                                  data |-> _save_to_persistence(r.s, now)]
                            ELSE [state |-> "ok",
                                  data |-> _save_to_persistence(r.s, now)]
            /\ last' = Call("_cleanup_worker", <<>>, None, outcome = "saved", r.n)
            /\ UNCHANGED <<nops, now, limiterVars, pipelineVars, apiVars, concVars>>

\* The callers make at most MaxFairOps calls; the clock and the cleanup
\* thread go on after them.
NextCacheFair ==
    \/ Tick
    \/ CleanupRound
    \/ /\ nops < MaxFairOps
       /\ \/ Get
          \/ Set
          \/ Delete
          \/ Clear
          \/ InvalidatePattern
          \/ CleanupExpired
          \/ Restart

NextCache ==
    \/ Tick
    \/ Get
    \/ Set
    \/ Delete
    \/ Clear
    \/ InvalidatePattern
    \/ CleanupExpired
    \/ CleanupWorker
    \/ Restart

---------------------------------------------------------------------------
(* RateLimiter.                                                            *)

Clients == {"c1", "c2"}

EndpointTypes == {"api", "heavy", "auth"}

\* RateLimiter.limits, scaled down (the source: api 100 requests per 60 s,
\* heavy 5 per 60 s, auth 5 per 300 s: the window of auth is longer than
\* the window of api).
limits ==
    [api |-> [requests |-> 2, window |-> 1],
     heavy |-> [requests |-> 1, window |-> 2],
     auth |-> [requests |-> 2, window |-> 3]]

\* What defaultdict builds for a client_id it does not hold.
NewClient == [requests |-> <<>>, blocked_until |-> 0]

ClientData(cl, client_id) ==
    IF client_id \in DOMAIN cl THEN cl[client_id] ELSE NewClient

\* while requests_queue and requests_queue[0] < cutoff_time: popleft()
RECURSIVE DropOld(_, _)
DropOld(requests_queue, cutoff_time) ==
    IF requests_queue # <<>> /\ Head(requests_queue) < cutoff_time
    THEN DropOld(Tail(requests_queue), cutoff_time)
    ELSE requests_queue

is_allowed_short_block(cl, lim, client_id, endpoint_type, current_time) ==
    LET client_data == ClientData(cl, client_id)
        Put(d) == [c \in DOMAIN cl \cup {client_id} |->
                      IF c = client_id THEN d ELSE cl[c]]
    IN  IF current_time < client_data.blocked_until
        THEN [clients |-> Put(client_data), ret |-> FALSE]
        ELSE LET limit_config == IF endpoint_type \in DOMAIN lim
                                 THEN lim[endpoint_type] ELSE lim["api"]
                 requests_queue == DropOld(client_data.requests,
                                           current_time - limit_config.window)
             IN  IF Len(requests_queue) >= limit_config.requests
                 THEN [clients |-> Put([requests |-> requests_queue,
                                        blocked_until |->
                                            current_time + limit_config.window]),
                       ret |-> FALSE]
                 ELSE [clients |-> Put([client_data EXCEPT
                                          !.requests = Append(requests_queue,
                                                              current_time)]),
                       ret |-> TRUE]

is_allowed_heavy_fallback(cl, lim, client_id, endpoint_type, current_time) ==
    LET client_data == ClientData(cl, client_id)
        Put(d) == [c \in DOMAIN cl \cup {client_id} |->
                      IF c = client_id THEN d ELSE cl[c]]
    IN  IF current_time < client_data.blocked_until
        THEN [clients |-> Put(client_data), ret |-> FALSE]
        ELSE LET limit_config == IF endpoint_type \in DOMAIN lim
                                 THEN lim[endpoint_type] ELSE lim["heavy"]
                 max_requests == limit_config.requests
                 window_size == limit_config.window
                 requests_queue == DropOld(client_data.requests,
                                           current_time - window_size)
             IN  IF Len(requests_queue) >= max_requests
                 THEN [clients |-> Put([requests |-> requests_queue,
                                        blocked_until |->
                                            current_time + window_size * 2]),
                       ret |-> FALSE]
                 ELSE [clients |-> Put([client_data EXCEPT
                                          !.requests = Append(requests_queue,
                                                              current_time)]),
                       ret |-> TRUE]

is_allowed_counts_blocked(cl, lim, client_id, endpoint_type, current_time) ==
    LET client_data == ClientData(cl, client_id)
        Put(d) == [c \in DOMAIN cl \cup {client_id} |->
                      IF c = client_id THEN d ELSE cl[c]]
    IN  IF current_time < client_data.blocked_until
        THEN [clients |-> Put([client_data EXCEPT
                                 !.requests = Append(@, current_time)]),
              ret |-> FALSE]
        ELSE LET limit_config == IF endpoint_type \in DOMAIN lim
                                 THEN lim[endpoint_type] ELSE lim["api"]
                 max_requests == limit_config.requests
                 window_size == limit_config.window
                 requests_queue == DropOld(client_data.requests,
                                           current_time - window_size)
             IN  IF Len(requests_queue) >= max_requests
                 THEN [clients |-> Put([requests |-> requests_queue,
                                        blocked_until |->
                                            current_time + window_size * 2]),
                       ret |-> FALSE]
                 ELSE [clients |-> Put([client_data EXCEPT
                                          !.requests = Append(requests_queue,
                                                              current_time)]),
                       ret |-> TRUE]

\* is_allowed on the client table cl with the limits lim: the new table and
\* the value returned.
is_allowed(cl, lim, client_id, endpoint_type, current_time) ==
    LET client_data == ClientData(cl, client_id)
        Put(d) == [c \in DOMAIN cl \cup {client_id} |->
                      IF c = client_id THEN d ELSE cl[c]]
    IN  IF current_time < client_data.blocked_until
        THEN [clients |-> Put(client_data), ret |-> FALSE]
        ELSE LET limit_config == IF endpoint_type \in DOMAIN lim
                                 THEN lim[endpoint_type] ELSE lim["api"]
                 max_requests == limit_config.requests
                 window_size == limit_config.window
                 requests_queue == DropOld(client_data.requests,
                                           current_time - window_size)
             IN  IF Len(requests_queue) >= max_requests
                 THEN [clients |-> Put([requests |-> requests_queue,
                                        blocked_until |->
                                            current_time + window_size * 2]),
                       ret |-> FALSE]
                 ELSE [clients |-> Put([client_data EXCEPT
                                          !.requests = Append(requests_queue,
                                                              current_time)]),
                       ret |-> TRUE]

InitLimiter ==
    /\ clients = <<>>
    /\ shadow = <<>>
    /\ calls = [c \in Clients |-> <<>>]

RECURSIVE TotalCalls(_)
TotalCalls(S) ==
    IF S = {} THEN 0
    ELSE LET c == CHOOSE x \in S : TRUE
         IN  Len(calls[c]) + TotalCalls(S \ {c})

TickL ==
    /\ now < MaxClock
    /\ now' = now + 1
    /\ UNCHANGED <<cacheVars, limiterVars, pipelineVars, apiVars, concVars>>

\* A request handler calls is_allowed.  The second run (shadow) sees the
\* same calls at the same times, except that it makes none of the calls to
\* the 'api' endpoint type; ret2 is what it answers.
IsAllowed ==
    \E client_id \in Clients, endpoint_type \in EndpointTypes :
        LET r == is_allowed(clients, limits, client_id, endpoint_type, now)
            r2 == IF endpoint_type # "api"
                  THEN is_allowed(shadow, limits, client_id, endpoint_type, now)
                  ELSE [clients |-> shadow, ret |-> r.ret]
        IN  /\ TotalCalls(Clients) < MaxCalls
            /\ clients' = r.clients
            /\ shadow' = r2.clients
            /\ calls' = [calls EXCEPT ![client_id] = Append(@,
                            [endpoint_type |-> endpoint_type,
                             at |-> now,
                             ret |-> r.ret,
                             ret2 |-> r2.ret,
                             requests |-> r.clients[client_id].requests,
                             blocked_until |-> r.clients[client_id].blocked_until])]
            /\ UNCHANGED <<cacheVars, now, pipelineVars, apiVars, concVars>>

\* Endpoint types a caller may hand to is_allowed: "export" is not a key
\* of RateLimiter.limits.
RequestedTypes == {"api", "heavy", "export"}

\* A call of is_allowed with any endpoint type, configured or not.
IsAllowedAny ==
    \E client_id \in Clients, endpoint_type \in RequestedTypes :
        LET r == is_allowed(clients, limits, client_id, endpoint_type, now)
        IN  /\ TotalCalls(Clients) < MaxCalls
            /\ clients' = r.clients
            /\ calls' = [calls EXCEPT ![client_id] = Append(@,
                            [endpoint_type |-> endpoint_type,
                             at |-> now,
                             ret |-> r.ret,
                             ret2 |-> r.ret,
                             requests |-> r.clients[client_id].requests,
                             blocked_until |-> r.clients[client_id].blocked_until])]
            /\ UNCHANGED <<shadow, cacheVars, now, pipelineVars, apiVars, concVars>>

NextFallback ==
    \/ TickL
    \/ IsAllowedAny

NextLimiter ==
    \/ TickL
    \/ IsAllowed

---------------------------------------------------------------------------
(* The participation pipeline: app.py (APIServer, handle_participation),   *)
(* database.py and config_handler.py.  Request handlers run in the threads *)
(* of the HTTP server, _worker in the thread start_worker creates; each    *)
(* database call is one transaction and each queue operation is atomic, so *)
(* each is one step here.                                                  *)

\* Bounds: requests received, database calls that raise, calls of get_proxy
\* made on its own.
MaxRequests == 2
MaxDbFailures == 1
MaxProxyCalls == 4

\* The threads of the HTTP server that run handle_participation; a request
\* is given the first thread that is free.
Requests == {1, 2}

\* The rows of table opportunities, and the ids a request may name (3 is
\* the id of no row).
OpportunityRows ==
    [o \in {1, 2} |->
        IF o = 1
        THEN [site |-> "A", url |-> <<"https:", "//", "a.example", "/jeu">>]
        ELSE [site |-> "B", url |-> <<"https:", "//", "b.example", "/form">>]]

RequestedIds == {1, 2, 3}

\* config['sites'][site]['requires_email_confirmation'], default False.
requires_email_confirmation(site) == site = "B"

\* The id of the active profile.
ActiveProfileId == 1

\* The userData a profile is saved with: a dict, a str holding the JSON
\* text of a dict, a str holding other text.
UserDatas == {"dict", "json text", "plain text"}

\* json.dumps(user_data) as create_profile and update_profile store it.
json_dumps(user_data) == [json |-> user_data]

\* model_to_dict: the column user_data holds valid JSON, which json.loads
\* turns back into the value that was dumped.
model_to_dict(column) == column.json

\* json.loads(x) in handle_participation: a dict raises TypeError, text
\* that is not JSON raises JSONDecodeError.
json_loads(x) ==
    CASE x = "dict" -> [raises |-> TRUE, value |-> "None"]
      [] x = "json text" -> [raises |-> FALSE, value |-> "dict"]
      [] OTHER -> [raises |-> TRUE, value |-> "None"]

\* urlparse(url).netloc for a url given as its parts: what follows "//"
\* when "//" is first or comes right after the scheme, else ''.
netloc(url) ==
    IF Len(url) >= 2 /\ url[1] = "//" THEN url[2]
    ELSE IF Len(url) >= 3 /\ url[2] = "//" THEN url[3]
    ELSE ""

NoDetails == [domain |-> "", timestamp |-> -1]

update_opportunity_status(opps, opportunity_id, status) ==
    IF opportunity_id \in DOMAIN opps
    THEN [opps EXCEPT ![opportunity_id].status = status]
    ELSE opps

set_confirmation_pending(opps, opportunity_id, domain, timestamp) ==
    IF opportunity_id \in DOMAIN opps
    THEN [opps EXCEPT ![opportunity_id] =
            [status |-> "email_confirmation_pending",
             confirmation_details |-> [domain |-> domain,
                                       timestamp |-> timestamp]]]
    ELSE opps

add_participation_history(history, opportunity_id, status, profile_id) ==
    Append(history, [opportunity_id |-> opportunity_id, status |-> status,
                     profile_id |-> profile_id])

\* queue.Queue: put appends, get takes the oldest item.
queue_put(q, item) == Append(q, item)

queue_get_lifo(q) == [item |-> q[Len(q)], rest |-> SubSeq(q, 1, Len(q) - 1)]

queue_get(q) == [item |-> Head(q), rest |-> Tail(q)]

\* get_proxy on the 'proxies' section cfg with the cursor at index: the
\* results it may give (random.choice may pick any proxy).  raises is the
\* IndexError of self.proxies[self.proxy_index].
NoProxy(index) == [proxy |-> "None", proxy_index |-> index, raises |-> FALSE]

get_proxy_no_wrap(cfg, index) ==
    IF ~cfg.enabled \/ cfg.list = <<>> THEN {NoProxy(index)}
    ELSE IF cfg.rotation_mode = "random"
    THEN {[proxy |-> cfg.list[i], proxy_index |-> index, raises |-> FALSE] :
             i \in DOMAIN cfg.list}
    ELSE IF cfg.rotation_mode = "sequential"
    THEN IF index >= Len(cfg.list)
         THEN {[proxy |-> "None", proxy_index |-> index, raises |-> TRUE]}
         ELSE {[proxy |-> cfg.list[index + 1],
                proxy_index |-> index + 1,
                raises |-> FALSE]}
    ELSE {NoProxy(index)}

get_proxy_random_advances(cfg, index) ==
    IF ~cfg.enabled \/ cfg.list = <<>> THEN {NoProxy(index)}
    ELSE IF cfg.rotation_mode = "random"
    THEN {[proxy |-> cfg.list[i], proxy_index |-> (index + 1) % Len(cfg.list),
           raises |-> FALSE] : i \in DOMAIN cfg.list}
    ELSE IF cfg.rotation_mode = "sequential"
    THEN IF index >= Len(cfg.list)
         THEN {[proxy |-> "None", proxy_index |-> index, raises |-> TRUE]}
         ELSE {[proxy |-> cfg.list[index + 1],
                proxy_index |-> (index + 1) % Len(cfg.list),
                raises |-> FALSE]}
    ELSE {NoProxy(index)}

get_proxy(cfg, index) ==
    IF ~cfg.enabled \/ cfg.list = <<>> THEN {NoProxy(index)}
    ELSE IF cfg.rotation_mode = "random"
    THEN {[proxy |-> cfg.list[i], proxy_index |-> index, raises |-> FALSE] :
             i \in DOMAIN cfg.list}
    ELSE IF cfg.rotation_mode = "sequential"
    THEN IF index >= Len(cfg.list)
         THEN {[proxy |-> "None", proxy_index |-> index, raises |-> TRUE]}
         ELSE {[proxy |-> cfg.list[index + 1],
                proxy_index |-> (index + 1) % Len(cfg.list),
                raises |-> FALSE]}
    ELSE {NoProxy(index)}

\* What one attempt of _call_scraper gives, and what _call_scraper gives
\* after its retries: a dict with success true, a dict with success false,
\* an exception (of requests.post, raise_for_status or response.json), or
\* JSON that is not a dict (result.get then raises AttributeError).
Outcomes == {"success", "failure", "raises", "malformed"}

\* @retry(stop=stop_after_attempt(3), ..., reraise=True)
stop_after_attempt == 3

\* What the external client would answer to each attempt that is made.
Responses == [1..stop_after_attempt -> Outcomes]

\* The retry loop of tenacity around the body of _call_scraper: attempt
\* number n is made; when it raises and n attempts are not yet the stop
\* count, the next one is made after the wait; otherwise its result is
\* returned or, with reraise, its exception is raised.  tries lists the
\* outcomes of the attempts made, exception is the number of the attempt
\* whose exception leaves the call (0 when none does); the worker holds
\* both until the statement that follows the call has run.
RECURSIVE retry(_, _, _)
retry(responses, attempt_number, tries) ==
    LET t == Append(tries, responses[attempt_number])
    IN  IF responses[attempt_number] = "raises"
        THEN IF attempt_number >= stop_after_attempt
             THEN [result |-> "raises", tries |-> t, exception |-> attempt_number]
             ELSE retry(responses, attempt_number + 1, t)
        ELSE [result |-> responses[attempt_number], tries |-> t, exception |-> 0]

_call_scraper(responses) == retry(responses, 1, <<>>)

\* The ways one call of _call_scraper can go.
CallResults == {_call_scraper(responses) : responses \in Responses}

\* Thread.join(): returns once the thread has ended.
join_timeout(w) == TRUE

join(w) == w.pc \in {"exited", "died"}

---------------------------------------------------------------------------
(* The pipeline as a state machine.                                        *)

IdleHandler == [pc |-> "idle", client_id |-> "none", opp_id |-> 0,
                allowed |-> FALSE, job |-> 0, response |-> 0]

\* The thread of a request that has been answered.
Answered(allowed, code) ==
    [IdleHandler EXCEPT !.allowed = allowed, !.response = code]

NoAudit == [writes |-> <<>>, history |-> <<>>, result |-> "none",
            db_failed |-> FALSE, done |-> FALSE]

InitPipeline ==
    /\ profile_user_data = json_dumps("dict")
    /\ opportunities = [o \in DOMAIN OpportunityRows |->
                          [status |-> "pending", confirmation_details |-> NoDetails]]
    /\ participation_history = <<>>
    /\ participation_queue = <<>>
    /\ unfinished_tasks = 0
    /\ jobs = <<>>
    /\ stop_worker_event = FALSE
    /\ worker = [pc |-> "none", job |-> 0, result |-> "none", tries |-> <<>>,
                 exception |-> 0]
    /\ handlers = [r \in Requests |-> IdleHandler]
    /\ shutdown_pc = "idle"
    /\ audit = <<>>
    /\ started = <<>>
    /\ in_flight = {}
    /\ nrequests = 0
    /\ db_failures = 0
    /\ proxy_index = 0
    /\ config = [enabled |-> TRUE, rotation_mode |-> "sequential",
                 list |-> <<"p0", "p1", "p2">>]
    /\ proxy_log = <<>>

\* Whether a database call commits (TRUE) or raises.
DbOutcomes == IF db_failures < MaxDbFailures THEN {TRUE, FALSE} ELSE {TRUE}

\* A database call made for job j raised.
DbRaised(j) ==
    /\ db_failures' = db_failures + 1
    /\ audit' = [audit EXCEPT ![j].db_failed = TRUE]
    /\ UNCHANGED <<opportunities, participation_history>>

\* The status written for job j by thread `by`.
Wrote(j, by, status) ==
    audit' = [audit EXCEPT ![j].writes = Append(@, [by |-> by, status |-> status])]

\* PUT /api/profiles/<id>: update_profile stores json.dumps(userData).
UpdateProfile ==
    \E user_data \in UserDatas :
        /\ json_dumps(user_data) # profile_user_data
        /\ profile_user_data' = json_dumps(user_data)
        /\ UNCHANGED <<opportunities, participation_history, queueVars,
                       threadVars, historyVars, proxyVars, cacheVars,
                       limiterVars, now, apiVars, concVars>>

\* rate_limit_decorator('heavy') around handle_participation: the request
\* is answered 429 when is_allowed says no.
RateLimitDecorator(r) ==
    \E client_id \in Clients, opp_id \in RequestedIds :
        LET a == is_allowed(clients, limits, client_id, "heavy", now)
        IN  /\ handlers[r].pc = "idle"
            /\ \A q \in Requests : handlers[q].pc = "idle" => r <= q
            /\ nrequests < MaxRequests
            /\ nrequests' = nrequests + 1
            /\ clients' = a.clients
            /\ handlers' = [handlers EXCEPT ![r] =
                    IF a.ret
                    THEN [pc |-> "body", client_id |-> client_id,
                          opp_id |-> opp_id, allowed |-> TRUE, job |-> 0,
                          response |-> 0]
                    ELSE Answered(FALSE, 429)]
            /\ UNCHANGED <<databaseVars, queueVars, stop_worker_event, worker,
                           shutdown_pc, audit, started, in_flight, db_failures,
                           proxyVars, cacheVars, shadow, calls, now,
                           apiVars, concVars>>

\* handle_participation up to participation_queue.put(job).
HandleParticipationPut(r) ==
    LET h == handlers[r]
        user_data == json_loads(model_to_dict(profile_user_data))
        Answer(code) ==
            /\ handlers' = [handlers EXCEPT ![r] = Answered(TRUE, code)]
            /\ UNCHANGED <<queueVars, audit>>
    IN  /\ h.pc = "body"
        /\ IF h.opp_id \notin DOMAIN opportunities THEN Answer(404)
           ELSE IF user_data.raises THEN Answer(500)
           ELSE LET opportunity == OpportunityRows[h.opp_id]
                    job == [id |-> h.opp_id,
                            url |-> opportunity.url,
                            userData |-> user_data.value,
                            requires_email_confirmation |->
                                requires_email_confirmation(opportunity.site),
                            profile_id |-> ActiveProfileId]
                IN  /\ jobs' = Append(jobs, job)
                    /\ participation_queue' =
                          queue_put(participation_queue, Len(jobs) + 1)
                    /\ unfinished_tasks' = unfinished_tasks + 1
                    /\ audit' = Append(audit, NoAudit)
                    /\ handlers' = [handlers EXCEPT ![r].pc = "status",
                                                    ![r].job = Len(jobs) + 1]
        /\ UNCHANGED <<databaseVars, stop_worker_event, worker, shutdown_pc,
                       started, in_flight, nrequests, db_failures, proxyVars,
                       cacheVars, limiterVars, now, apiVars, concVars>>

\* handle_participation from update_opportunity_status(opp_id, 'pending')
\* to the 202 answer; an exception of the database call is answered 500.
HandleParticipationStatus(r) ==
    \E ok \in DbOutcomes :
        LET h == handlers[r]
        IN  /\ h.pc = "status"
            /\ IF ok
               THEN /\ opportunities' =
                         update_opportunity_status(opportunities, h.opp_id, "pending")
                    /\ Wrote(h.job, "handler", "pending")
                    /\ UNCHANGED <<participation_history, db_failures>>
               ELSE DbRaised(h.job)
            /\ handlers' = [handlers EXCEPT ![r] =
                                Answered(TRUE, IF ok THEN 202 ELSE 500)]
            /\ UNCHANGED <<profile_user_data, queueVars, stop_worker_event,
                           worker, shutdown_pc, started, in_flight, nrequests,
                           proxyVars, cacheVars, limiterVars, now,
                           apiVars, concVars>>

\* start_worker, called once when the program starts.
StartWorker ==
    /\ worker.pc = "none"
    /\ worker' = [worker EXCEPT !.pc = "loop"]
    /\ UNCHANGED <<databaseVars, queueVars, stop_worker_event, handlers,
                   shutdown_pc, historyVars, proxyVars, cacheVars, limiterVars,
                   now, apiVars, concVars>>

\* The loop test of a worker that empties the queue before it stops.
WorkerLoop_drains ==
    /\ worker.pc = "loop"
    /\ worker' = [worker EXCEPT
                    !.pc = IF stop_worker_event /\ participation_queue = <<>>
                           THEN "exited" ELSE "get"]
    /\ UNCHANGED <<databaseVars, queueVars, stop_worker_event, handlers,
                   shutdown_pc, historyVars, proxyVars, cacheVars, limiterVars,
                   now, apiVars, concVars>>

\* while not self.stop_worker_event.is_set()
WorkerLoop ==
    /\ worker.pc = "loop"
    /\ worker' = [worker EXCEPT !.pc = IF stop_worker_event THEN "exited" ELSE "get"]
    /\ UNCHANGED <<databaseVars, queueVars, stop_worker_event, handlers,
                   shutdown_pc, historyVars, proxyVars, cacheVars, limiterVars,
                   now, apiVars, concVars>>

\* job = self.participation_queue.get(timeout=1); queue.Empty: continue
WorkerGet ==
    /\ worker.pc = "get"
    /\ IF participation_queue = <<>>
       THEN /\ worker' = [worker EXCEPT !.pc = "loop"]
            /\ UNCHANGED <<participation_queue, started, in_flight>>
       ELSE LET g == queue_get(participation_queue)
            IN  /\ participation_queue' = g.rest
                /\ worker' = [pc |-> "status1", job |-> g.item, result |-> "none",
                              tries |-> <<>>, exception |-> 0]
                /\ started' = Append(started, g.item)
                /\ in_flight' = in_flight \cup {g.item}
    /\ UNCHANGED <<databaseVars, unfinished_tasks, jobs, stop_worker_event,
                   handlers, shutdown_pc, audit, nrequests, db_failures,
                   proxyVars, cacheVars, limiterVars, now, apiVars, concVars>>

\* A status write of the worker outside the inner try (lines 107 and 110):
\* an exception of the database call leaves the while loop and ends the
\* thread.
WorkerProcessing(pc, next) ==
    \E ok \in DbOutcomes :
        LET j == worker.job
        IN  /\ worker.pc = pc
            /\ IF ok
               THEN /\ opportunities' =
                         update_opportunity_status(opportunities, jobs[j].id,
                                                   "processing")
                    /\ Wrote(j, "worker", "processing")
                    /\ UNCHANGED <<participation_history, db_failures>>
               ELSE DbRaised(j)
            /\ worker' = [worker EXCEPT !.pc = IF ok THEN next ELSE "died"]
            /\ UNCHANGED <<profile_user_data, queueVars, stop_worker_event,
                           handlers, shutdown_pc, started, in_flight, nrequests,
                           proxyVars, cacheVars, limiterVars, now,
                           apiVars, concVars>>

WorkerStatus1 == WorkerProcessing("status1", "status2")

\* time.sleep(delay), then the second 'processing' write.
WorkerStatus2 == WorkerProcessing("status2", "call")

\* get_proxy and _call_scraper inside the inner try.
WorkerCall ==
    \E p \in get_proxy(config, proxy_index), called \in CallResults :
        /\ worker.pc = "call"
        /\ proxy_index' = p.proxy_index
        /\ proxy_log' = Append(proxy_log,
                               [proxy |-> p.proxy, raises |-> p.raises,
                                proxy_index |-> p.proxy_index, config |-> config])
        /\ LET c == IF p.raises
                    THEN [result |-> "raises", tries |-> <<>>, exception |-> 0]
                    ELSE called
           IN  /\ worker' = [worker EXCEPT
                    !.pc = IF c.result \in {"success", "failure"}
                           THEN "terminal" ELSE "except",
                    !.result = c.result,
                    !.tries = c.tries,
                    !.exception = c.exception]
               /\ audit' = [audit EXCEPT ![worker.job].result = c.result]
        /\ UNCHANGED <<databaseVars, queueVars, stop_worker_event, handlers,
                       shutdown_pc, started, in_flight, nrequests, db_failures,
                       config, cacheVars, limiterVars, now, apiVars, concVars>>

\* The status write that follows the call (lines 120-126 and 129).
WorkerTerminal ==
    \E ok \in DbOutcomes :
        LET j == worker.job
            job == jobs[j]
            status == IF worker.result = "success"
                      THEN IF job.requires_email_confirmation
                           THEN "email_confirmation_pending" ELSE "success"
                      ELSE "failed"
        IN  /\ worker.pc = "terminal"
            /\ IF ok
               THEN /\ opportunities' =
                         IF status = "email_confirmation_pending"
                         THEN set_confirmation_pending(opportunities, job.id,
                                                       netloc(job.url), now)
                         ELSE update_opportunity_status(opportunities, job.id,
                                                        status)
                    /\ Wrote(j, "worker", status)
                    /\ UNCHANGED <<participation_history, db_failures>>
               ELSE DbRaised(j)
            /\ worker' = [worker EXCEPT !.pc = IF ok THEN "history" ELSE "except",
                                        !.tries = <<>>, !.exception = 0]
            /\ UNCHANGED <<profile_user_data, queueVars, stop_worker_event,
                           handlers, shutdown_pc, started, in_flight, nrequests,
                           proxyVars, cacheVars, limiterVars, now,
                           apiVars, concVars>>

\* add_participation_history inside the inner try (lines 127 and 130).
WorkerHistory ==
    \E ok \in DbOutcomes :
        LET j == worker.job
            status == IF worker.result = "success" THEN "participated" ELSE "failed"
        IN  /\ worker.pc = "history"
            /\ IF ok
               THEN /\ participation_history' =
                         add_participation_history(participation_history,
                                                   jobs[j].id, status,
                                                   jobs[j].profile_id)
                    /\ audit' = [audit EXCEPT ![j].history = Append(@, status)]
                    /\ UNCHANGED <<opportunities, db_failures>>
               ELSE DbRaised(j)
            /\ worker' = [worker EXCEPT !.pc = IF ok THEN "task_done" ELSE "except"]
            /\ UNCHANGED <<profile_user_data, queueVars, stop_worker_event,
                           handlers, shutdown_pc, started, in_flight, nrequests,
                           proxyVars, cacheVars, limiterVars, now,
                           apiVars, concVars>>

\* except Exception: update_opportunity_status(opp_id, 'failed', ...).  An
\* exception raised here is not caught.
WorkerExceptStatus ==
    \E ok \in DbOutcomes :
        LET j == worker.job
        IN  /\ worker.pc = "except"
            /\ IF ok
               THEN /\ opportunities' =
                         update_opportunity_status(opportunities, jobs[j].id,
                                                   "failed")
                    /\ Wrote(j, "worker", "failed")
                    /\ UNCHANGED <<participation_history, db_failures>>
               ELSE DbRaised(j)
            /\ worker' = [worker EXCEPT
                            !.pc = IF ok THEN "except_history" ELSE "died",
                            !.tries = <<>>, !.exception = 0]
            /\ UNCHANGED <<profile_user_data, queueVars, stop_worker_event,
                           handlers, shutdown_pc, started, in_flight, nrequests,
                           proxyVars, cacheVars, limiterVars, now,
                           apiVars, concVars>>

\* except Exception: add_participation_history(opp_id, 'failed', ...).
WorkerExceptHistory ==
    \E ok \in DbOutcomes :
        LET j == worker.job
        IN  /\ worker.pc = "except_history"
            /\ IF ok
               THEN /\ participation_history' =
                         add_participation_history(participation_history,
                                                   jobs[j].id, "failed",
                                                   jobs[j].profile_id)
                    /\ audit' = [audit EXCEPT ![j].history = Append(@, "failed")]
                    /\ UNCHANGED <<opportunities, db_failures>>
               ELSE DbRaised(j)
            /\ worker' = [worker EXCEPT !.pc = IF ok THEN "task_done" ELSE "died"]
            /\ UNCHANGED <<profile_user_data, queueVars, stop_worker_event,
                           handlers, shutdown_pc, started, in_flight, nrequests,
                           proxyVars, cacheVars, limiterVars, now,
                           apiVars, concVars>>

\* Queue.task_done() for job j.
task_done_forgets(n, flight, j) == [unfinished_tasks |-> n - 1, in_flight |-> flight]

task_done(n, flight, j) == [unfinished_tasks |-> n - 1, in_flight |-> flight \ {j}]

WorkerTaskDone ==
    LET d == task_done(unfinished_tasks, in_flight, worker.job)
    IN  /\ worker.pc = "task_done"
        /\ unfinished_tasks' = d.unfinished_tasks
        /\ in_flight' = d.in_flight
        /\ audit' = [audit EXCEPT ![worker.job].done = TRUE]
        /\ worker' = [worker EXCEPT !.pc = "loop"]
        /\ UNCHANGED <<databaseVars, participation_queue, jobs,
                       stop_worker_event, handlers, shutdown_pc, started,
                       nrequests, db_failures, proxyVars, cacheVars,
                       limiterVars, now, apiVars, concVars>>

\* shutdown: self.stop_worker_event.set().  It is registered with atexit
\* after start_worker.
ShutdownSet ==
    /\ shutdown_pc = "idle"
    /\ worker.pc # "none"
    /\ stop_worker_event' = TRUE
    /\ shutdown_pc' = "join"
    /\ UNCHANGED <<databaseVars, queueVars, worker, handlers, historyVars,
                   proxyVars, cacheVars, limiterVars, now, apiVars, concVars>>

\* shutdown: self.worker_thread.join(), then it returns.
ShutdownJoin ==
    /\ shutdown_pc = "join"
    /\ join(worker)
    /\ shutdown_pc' = "returned"
    /\ UNCHANGED <<databaseVars, queueVars, stop_worker_event, worker,
                   handlers, historyVars, proxyVars, cacheVars, limiterVars,
                   now, apiVars, concVars>>

\* The worker thread is in its loop and shutdown has not set the event.
WorkerRunning ==
    worker.pc \notin {"none", "exited", "died"} /\ ~stop_worker_event

\* The program as app.py starts it: start_worker() comes before serve(),
\* and shutdown runs at exit, when no request is served any more, so that
\* a job is put on the queue only while the worker is running.
ServedParticipationPut(r) == WorkerRunning /\ HandleParticipationPut(r)

\* One step of a request thread, and one step of the worker thread.
RequestStep(r) ==
    RateLimitDecorator(r) \/ ServedParticipationPut(r) \/ HandleParticipationStatus(r)

WorkerStep ==
    \/ WorkerLoop
    \/ WorkerGet
    \/ WorkerStatus1
    \/ WorkerStatus2
    \/ WorkerCall
    \/ WorkerTerminal
    \/ WorkerHistory
    \/ WorkerExceptStatus
    \/ WorkerExceptHistory
    \/ WorkerTaskDone

NextServing ==
    \/ UpdateProfile
    \/ \E r \in Requests : RequestStep(r)
    \/ StartWorker
    \/ WorkerStep
    \/ ShutdownSet
    \/ ShutdownJoin

NextPipeline ==
    \/ UpdateProfile
    \/ \E r \in Requests : RateLimitDecorator(r)
    \/ \E r \in Requests : HandleParticipationPut(r)
    \/ \E r \in Requests : HandleParticipationStatus(r)
    \/ StartWorker
    \/ WorkerLoop
    \/ WorkerGet
    \/ WorkerStatus1
    \/ WorkerStatus2
    \/ WorkerCall
    \/ WorkerTerminal
    \/ WorkerHistory
    \/ WorkerExceptStatus
    \/ WorkerExceptHistory
    \/ WorkerTaskDone
    \/ ShutdownSet
    \/ ShutdownJoin

---------------------------------------------------------------------------
(* get_proxy on its own, with config.json edited between the calls.        *)

\* The 'proxies' sections config.json may hold.
ProxyConfigs ==
    {[enabled |-> e, rotation_mode |-> m, list |-> l] :
        e \in BOOLEAN, m \in {"sequential", "random"},
        l \in {<<"p0", "p1", "p2">>, <<"p0">>, <<>>}}

\* config.json is edited; get_proxy reads it again on every call.
EditConfig ==
    \E cfg \in ProxyConfigs :
        /\ cfg # config
        /\ Len(proxy_log) < MaxProxyCalls
        /\ config' = cfg
        /\ UNCHANGED <<proxy_index, proxy_log, databaseVars, queueVars,
                       threadVars, historyVars, cacheVars, limiterVars, now,
                       apiVars, concVars>>

\* One call of get_proxy.
GetProxy ==
    \E p \in get_proxy(config, proxy_index) :
        /\ Len(proxy_log) < MaxProxyCalls
        /\ proxy_index' = p.proxy_index
        /\ proxy_log' = Append(proxy_log,
                               [proxy |-> p.proxy, raises |-> p.raises,
                                proxy_index |-> p.proxy_index, config |-> config])
        /\ UNCHANGED <<config, databaseVars, queueVars, threadVars,
                       historyVars, cacheVars, limiterVars, now,
                       apiVars, concVars>>

NextProxy ==
    \/ EditConfig
    \/ GetProxy

---------------------------------------------------------------------------
(* The HTTP API over the profiles: app.py (Flask routes) and server.py     *)
(* (class Handler), with the functions of database.py they call.  One of   *)
(* the two servers is started; api_cache is the IntelligentCache instance  *)
(* and rate_limiter the RateLimiter instance of its process.  A request is *)
(* handled in one step: each handler is a short sequence of calls that     *)
(* are each atomic, and the claims made of them are about requests made    *)
(* one after the other.                                                    *)

\* Bounds: requests made to the API, and the highest profile id.
MaxApiRequests == 5
MaxProfileId == 3

Programs == {"app", "server"}

\* The value of the X-API-Key header of a request ("" when the header is
\* absent); the key the server is configured with is the last one.
ApiKeys == {"", "wrong-key", "test-api-key"}

API_KEY == "test-api-key"

\* The opportunities the profile init_db creates holds; a profile created
\* through the API holds none.
DefaultOpportunities == {"Opp 1"}

\* create_profile: the new row gets the next id and is_active False.
create_profile(p) ==
    LET id == IF DOMAIN p = {} THEN 1
              ELSE (CHOOSE m \in DOMAIN p : \A q \in DOMAIN p : q <= m) + 1
    IN  [profiles |-> [q \in DOMAIN p \cup {id} |->
                          IF q = id
                          THEN [is_active |-> FALSE, opportunities |-> {}]
                          ELSE p[q]],
         id |-> id]

\* The row query(Profile).order_by(Profile.id).first() gives, 0 for None.
first_profile(p) ==
    IF DOMAIN p = {} THEN 0
    ELSE CHOOSE m \in DOMAIN p : \A q \in DOMAIN p : m <= q

\* get_active_profile: the id of the profile returned, 0 for None.
get_active_profile(p) ==
    IF \E q \in DOMAIN p : p[q].is_active
    THEN CHOOSE q \in DOMAIN p :
            p[q].is_active /\ \A r \in DOMAIN p : p[r].is_active => q <= r
    ELSE first_profile(p)

\* set_active_profile: every row is set inactive, then the rows with the
\* id are set active.
set_active_profile(p, profile_id) ==
    [q \in DOMAIN p |-> [p[q] EXCEPT !.is_active = (q = profile_id)]]

\* delete_profile: raises ValueError when one profile is left; otherwise
\* the row goes with its opportunities, and when it was the active one
\* the first remaining profile is made active.
delete_profile(p, profile_id) ==
    IF Cardinality(DOMAIN p) <= 1 THEN [profiles |-> p, raises |-> TRUE]
    ELSE IF profile_id \notin DOMAIN p THEN [profiles |-> p, raises |-> FALSE]
    ELSE LET rest == [q \in DOMAIN p \ {profile_id} |-> p[q]]
         IN  [profiles |->
                 IF p[profile_id].is_active
                 THEN [rest EXCEPT ![first_profile(rest)].is_active = TRUE]
                 ELSE rest,
              raises |-> FALSE]

get_opportunities(p, profile_id) == p[profile_id].opportunities

\* The cache key of handle_get_data: app.py puts the id of the active
\* profile and the address of the client in it, server.py the address only.
cache_key(prog, profile_id, ip) ==
    IF prog = "app"
    THEN <<"opportunities_data", profile_id, ip>>
    ELSE <<"opportunities_data", 0, ip>>

\* response_data as handle_get_data builds it.
response_data(p, active_profile) ==
    [kind |-> "dict", body |-> <<>>,
     opportunities |-> get_opportunities(p, active_profile),
     profile |-> active_profile,
     cached |-> FALSE]

NoRequest ==
    [route |-> "none", key |-> "", ip |-> "none", status |-> 0,
     handler_ran |-> FALSE, active |-> 0, profile |-> 0, opportunities |-> {},
     cached |-> FALSE, id |-> 0]

\* The request and its response; active is the profile get_active_profile
\* gives when the request is made.
Response(route, key, ip, status, ran) ==
    [NoRequest EXCEPT !.route = route, !.key = key, !.ip = ip,
                      !.status = status, !.handler_ran = ran,
                      !.active = get_active_profile(profiles)]

InitApi ==
    /\ profiles = [q \in {1} |->
                     [is_active |-> TRUE, opportunities |-> DefaultOpportunities]]
    /\ program = "none"
    /\ api_last = NoRequest
    /\ napi = 0

\* python app.py, or python server.py.
StartProgram ==
    \E prog \in Programs :
        /\ program = "none"
        /\ program' = prog
        /\ UNCHANGED <<profiles, api_last, napi, cacheVars, limiterVars, now,
                       pipelineVars, concVars>>

TickApi ==
    /\ program # "none"
    /\ now < MaxTime
    /\ now' = now + 1
    /\ UNCHANGED <<cacheVars, limiterVars, pipelineVars, apiVars, concVars>>

\* A request is routed to its handler: Flask's routing in app.py, do_GET /
\* do_POST / do_PUT / do_DELETE in server.py.  Neither looks at X-API-Key.
Dispatched(key) ==
    /\ program # "none"
    /\ napi < MaxApiRequests
    /\ napi' = napi + 1
    /\ UNCHANGED <<program, now, file, last, nops, shadow, calls, pipelineVars,
                   concVars>>

\* GET /api/data.
HandleGetData ==
    \E key \in ApiKeys, ip \in Clients :
        LET a == is_allowed(clients, limits, ip, "api", now)
            active_profile == get_active_profile(profiles)
            k == cache_key(program, active_profile, ip)
            g == get(Self, k, now)
            hit == g.val # None
            built == response_data(profiles, active_profile)
            s == set(g.s, k, built, <<default_ttl>>, now)
            Answer(status, data) ==
                api_last' = [Response("data", key, ip, status,
                                        a.ret \/ program = "server") EXCEPT
                               !.profile = data.profile,
                               !.opportunities = data.opportunities,
                               !.cached = data.cached]
            Nothing == [profile |-> 0, opportunities |-> {}, cached |-> FALSE]
            \* cached_data['cached'] = True changes the dict the cache holds
            Hit == /\ Assign([g.s EXCEPT !.cache =
                                DictSet(@, k, [g.val EXCEPT !.cached = TRUE])])
                   /\ Answer(200, [g.val EXCEPT !.cached = TRUE])
            Miss == /\ Assign(s.s)
                    /\ Answer(200, built)
            NotFound == Answer(404, Nothing)
        IN  /\ Dispatched(key)
            /\ clients' = a.clients
            /\ UNCHANGED profiles
            /\ IF ~a.ret
               THEN Answer(429, Nothing) /\ UNCHANGED <<_cache, _metadata, _stats>>
               ELSE IF program = "app"
               THEN IF active_profile = 0
                    THEN NotFound /\ UNCHANGED <<_cache, _metadata, _stats>>
                    ELSE IF hit THEN Hit ELSE Miss
               ELSE IF hit THEN Hit
                    ELSE IF active_profile = 0
                    THEN NotFound /\ Assign(g.s)
                    ELSE Miss

\* POST /api/profiles.
HandleCreateProfile ==
    \E key \in ApiKeys, ip \in Clients :
        LET c == create_profile(profiles)
        IN  /\ Dispatched(key)
            /\ c.id <= MaxProfileId
            /\ profiles' = c.profiles
            /\ api_last' = [Response("create_profile", key, ip, 201, TRUE)
                               EXCEPT !.id = c.id]
            /\ UNCHANGED <<clients, _cache, _metadata, _stats>>

\* POST /api/profiles/<id>/activate.
HandleActivateProfile ==
    \E key \in ApiKeys, ip \in Clients, profile_id \in 1..MaxProfileId :
        /\ Dispatched(key)
        /\ profiles' = set_active_profile(profiles, profile_id)
        /\ api_last' = [Response("activate_profile", key, ip, 200, TRUE)
                           EXCEPT !.id = profile_id]
        /\ UNCHANGED <<clients, _cache, _metadata, _stats>>

\* DELETE /api/profiles/<id>: ValueError is answered 400.
HandleDeleteProfile ==
    \E key \in ApiKeys, ip \in Clients, profile_id \in 1..MaxProfileId :
        LET d == delete_profile(profiles, profile_id)
        IN  /\ Dispatched(key)
            /\ profiles' = d.profiles
            /\ api_last' = [Response("delete_profile", key, ip,
                                     IF d.raises THEN 400 ELSE 200, TRUE)
                               EXCEPT !.id = profile_id]
            /\ UNCHANGED <<clients, _cache, _metadata, _stats>>

NextApi ==
    \/ StartProgram
    \/ TickApi
    \/ HandleGetData
    \/ HandleCreateProfile
    \/ HandleActivateProfile
    \/ HandleDeleteProfile

---------------------------------------------------------------------------
(* ConfigHandler (config_handler.py): one threading.Lock, which is not      *)
(* reentrant, around the reads and writes of config.json.  The callers are  *)
(* the worker (get_config and get_proxies in get_proxy) and the request     *)
(* handlers (save_config, add_proxy, delete_proxy).                         *)

ConfigThreads == {1, 2}

ConfigOps == {"get_config", "get_proxies", "save_config", "add_proxy",
              "delete_proxy"}

\* The arguments of the calls: a proxy URL, or a whole configuration.
ProxyUrls == {"p0", "p3"}

NoArg == [url |-> "none", new_config |-> [enabled |-> FALSE,
                                           rotation_mode |-> "random",
                                           list |-> <<>>]]

ConfigArgs(op) ==
    IF op = "save_config"
    THEN {[NoArg EXCEPT !.new_config = c] :
             c \in {[enabled |-> TRUE, rotation_mode |-> "sequential",
                     list |-> <<"p0">>],
                    [enabled |-> FALSE, rotation_mode |-> "random",
                     list |-> <<>>]}}
    ELSE IF op \in {"add_proxy", "delete_proxy"}
    THEN {[NoArg EXCEPT !.url = u] : u \in ProxyUrls}
    ELSE {NoArg}

\* A thread that is not inside ConfigHandler; ret is what its last call
\* returned ("none" before the first one).
IdleThread == [pc |-> "idle", op |-> "none", arg |-> NoArg,
               raw_config |-> NoArg.new_config, ret |-> "none"]

\* The positions at which a thread enters `with self.lock`.
AcquirePcs == {"with_lock", "load_with_lock", "save_with_lock"}

\* raw_config['proxies']['list'] after add_proxy / delete_proxy.
list_append(list, proxy_url) == Append(list, proxy_url)

list_remove(list, proxy_url) == SelectSeq(list, LAMBDA u : u # proxy_url)

InList(list, proxy_url) == \E i \in DOMAIN list : list[i] = proxy_url

InitConfig ==
    /\ config_lock = 0
    /\ self_config = [enabled |-> TRUE, rotation_mode |-> "sequential",
                      list |-> <<"p0", "p1", "p2">>]
    /\ cthreads = [t \in ConfigThreads |-> IdleThread]

\* A thread calls a method of config_handler.  get_config and get_proxies
\* go straight to _load_config; the three writers first enter their own
\* `with self.lock` (lines 62, 78, 94).
ConfigCall(t) ==
    \E op \in ConfigOps : \E arg \in ConfigArgs(op) :
        /\ cthreads[t].pc = "idle"
        /\ cthreads' = [cthreads EXCEPT ![t] =
               [IdleThread EXCEPT
                   !.pc = IF op \in {"get_config", "get_proxies"}
                          THEN "load_with_lock" ELSE "with_lock",
                   !.op = op,
                   !.arg = arg]]
        /\ UNCHANGED <<config_lock, self_config, lockedVars, cacheVars,
                       limiterVars, now, pipelineVars, apiVars>>

\* Lock.acquire(): the thread goes on only when the lock is free, whoever
\* holds it.
ConfigAcquire(t) ==
    LET th == cthreads[t]
    IN  /\ th.pc \in AcquirePcs
        /\ config_lock = 0
        /\ config_lock' = t
        /\ cthreads' = [cthreads EXCEPT ![t].pc =
               IF th.pc = "with_lock" THEN th.op
               ELSE IF th.pc = "load_with_lock" THEN "json_load"
               ELSE "json_dump"]
        /\ UNCHANGED <<self_config, lockedVars, cacheVars, limiterVars, now,
                       pipelineVars, apiVars>>

\* The code a thread runs between two acquisitions.  _load_config and
\* _save_config release the lock when they leave their with block; the
\* with block of the caller then releases a lock that is not held, which
\* raises RuntimeError.
ConfigRun(t) ==
    LET th == cthreads[t]
        Goto(pc) == cthreads' = [cthreads EXCEPT ![t].pc = pc]
        Return(ret) == cthreads' = [cthreads EXCEPT ![t] =
                                       [IdleThread EXCEPT !.ret = ret]]
    IN  /\ th.pc \notin AcquirePcs \cup {"idle"}
        /\ CASE th.pc = "save_config" ->
                    \* self.config = new_config; self._save_config()
                    /\ self_config' = th.arg.new_config
                    /\ Goto("save_with_lock")
                    /\ UNCHANGED <<config_lock, config>>
             [] th.pc \in {"add_proxy", "delete_proxy"} ->
                    \* raw_config = self._load_config()
                    /\ Goto("load_with_lock")
                    /\ UNCHANGED <<config_lock, self_config, config>>
             [] th.pc = "json_load" ->
                    \* _load_config: json.load(f), leaving its with block
                    /\ config_lock' = 0
                    /\ IF th.op \in {"get_config", "get_proxies"}
                       THEN Return("config")
                       ELSE cthreads' = [cthreads EXCEPT
                                ![t].pc = "modify", ![t].raw_config = config]
                    /\ UNCHANGED <<self_config, config>>
             [] th.pc = "modify" ->
                    LET list == th.raw_config.list
                        url == th.arg.url
                        changed == IF th.op = "add_proxy"
                                   THEN ~InList(list, url) ELSE InList(list, url)
                        new_list == IF th.op = "add_proxy"
                                    THEN list_append(list, url)
                                    ELSE list_remove(list, url)
                    IN  /\ IF changed
                           THEN /\ self_config' =
                                      [th.raw_config EXCEPT !.list = new_list]
                                /\ Goto("save_with_lock")
                                /\ UNCHANGED config_lock
                           ELSE /\ Return("RuntimeError")
                                /\ UNCHANGED <<config_lock, self_config>>
                        /\ UNCHANGED config
             [] th.pc = "json_dump" ->
                    \* _save_config: json.dump(self.config, f), leaving its
                    \* with block, then the with block of the caller
                    /\ config' = self_config
                    /\ config_lock' = 0
                    /\ Return("RuntimeError")
                    /\ UNCHANGED self_config
        /\ UNCHANGED <<lockedVars, cacheVars, limiterVars, now, databaseVars,
                       queueVars, threadVars, historyVars, proxy_index,
                       proxy_log, apiVars>>

NextConfig ==
    \/ \E t \in ConfigThreads : ConfigCall(t)
    \/ \E t \in ConfigThreads : ConfigAcquire(t)
    \/ \E t \in ConfigThreads : ConfigRun(t)

---------------------------------------------------------------------------
(* RateLimiter called from several threads (the request threads of the     *)
(* HTTP server).  is_allowed and get_client_status read time.time() and     *)
(* then enter `with self.lock`; clear_client enters it at once;             *)
(* update_limits does not take the lock.  The body of a with block is one   *)
(* step: nothing that takes the lock can run in between.                    *)

\* Bounds: calls made by the threads, and the clock.
MaxLockedCalls == 4
MaxLockedClock == 2

LimiterThreads == {1, 2}

LimiterOps == {"is_allowed", "get_client_status", "clear_client",
               "update_limits"}

\* The limits update_limits is called with.
NewLimits == {[requests |-> 1, window |-> 1]}

IdleLimiterThread ==
    [pc |-> "idle", op |-> "none", client_id |-> "none",
     endpoint_type |-> "none", current_time |-> 0,
     new_limit |-> [requests |-> 0, window |-> 0], ret |-> "none"]

clear_client_keeps_block(cl, client_id) ==
    [c \in DOMAIN cl |->
        IF c = client_id THEN [cl[c] EXCEPT !.requests = <<>>] ELSE cl[c]]

\* del self.clients[client_id] when it is there.
clear_client(cl, client_id) ==
    [c \in DOMAIN cl \ {client_id} |-> cl[c]]

\* self.limits after update_limits(endpoint_type, requests, window).
update_limits(lim, endpoint_type, new_limit) ==
    IF endpoint_type \in DOMAIN lim
    THEN [lim EXCEPT ![endpoint_type] = new_limit]
    ELSE lim

\* client_data = self.clients[client_id]: the defaultdict stores a new
\* record for a client it does not hold.
touch_client(cl, client_id) ==
    [c \in DOMAIN cl \cup {client_id} |-> ClientData(cl, c)]

\* status['blocked'] of get_client_status.
get_client_status(cl, client_id, current_time) ==
    current_time < ClientData(cl, client_id).blocked_until

InitLocked ==
    /\ limiter_lock = 0
    /\ self_limits = limits
    /\ lthreads = [t \in LimiterThreads |-> IdleLimiterThread]
    /\ nlocked = 0

\* A thread calls a method of rate_limiter: current_time = time.time() is
\* read before the lock is asked for (lines 41 and 86).
LimiterCall(t) ==
    \E op \in LimiterOps, client_id \in Clients,
       endpoint_type \in {"api", "export"}, new_limit \in NewLimits :
        /\ lthreads[t].pc = "idle"
        /\ nlocked < MaxLockedCalls
        /\ nlocked' = nlocked + 1
        /\ op # "is_allowed" => endpoint_type = "api"
        /\ lthreads' = [lthreads EXCEPT ![t] =
               [pc |-> IF op = "update_limits" THEN "update_limits"
                       ELSE "with_lock",
                op |-> op,
                client_id |-> IF op = "update_limits" THEN "none" ELSE client_id,
                endpoint_type |-> IF op \in {"is_allowed", "update_limits"}
                                  THEN endpoint_type ELSE "none",
                current_time |-> IF op \in {"is_allowed", "get_client_status"}
                                 THEN now ELSE 0,
                new_limit |-> IF op = "update_limits" THEN new_limit
                              ELSE IdleLimiterThread.new_limit,
                ret |-> "none"]]
        /\ UNCHANGED <<limiter_lock, self_limits, configVars, cacheVars,
                       limiterVars, now, pipelineVars, apiVars>>

\* with self.lock: the thread goes on when the lock is free.
LimiterAcquire(t) ==
    /\ lthreads[t].pc = "with_lock"
    /\ limiter_lock = 0
    /\ limiter_lock' = t
    /\ lthreads' = [lthreads EXCEPT ![t].pc = "locked"]
    /\ UNCHANGED <<self_limits, nlocked, configVars, cacheVars, limiterVars, now,
                   pipelineVars, apiVars>>

\* The body of the with block, and the release of the lock at its end.
LimiterLocked(t) ==
    LET th == lthreads[t]
        Return(ret) == lthreads' = [lthreads EXCEPT ![t] =
                                       [IdleLimiterThread EXCEPT !.ret = ret]]
    IN  /\ th.pc = "locked"
        /\ limiter_lock' = 0
        /\ CASE th.op = "is_allowed" ->
                    LET r == is_allowed(clients, self_limits, th.client_id,
                                        th.endpoint_type, th.current_time)
                    IN  /\ clients' = r.clients
                        /\ Return(IF r.ret THEN "True" ELSE "False")
             [] th.op = "get_client_status" ->
                    /\ clients' = touch_client(clients, th.client_id)
                    /\ Return(IF get_client_status(clients, th.client_id,
                                                   th.current_time)
                              THEN "blocked" ELSE "not blocked")
             [] th.op = "clear_client" ->
                    /\ clients' = clear_client(clients, th.client_id)
                    /\ Return("None")
        /\ UNCHANGED <<self_limits, nlocked, shadow, calls, configVars,
                       cacheVars, now, pipelineVars, apiVars>>

\* update_limits: the test and the assignment of self.limits[endpoint_type],
\* made without the lock.
LimiterUpdateLimits(t) ==
    LET th == lthreads[t]
    IN  /\ th.pc = "update_limits"
        /\ self_limits' = update_limits(self_limits, th.endpoint_type,
                                        th.new_limit)
        /\ lthreads' = [lthreads EXCEPT ![t] =
                           [IdleLimiterThread EXCEPT !.ret = "None"]]
        /\ UNCHANGED <<limiter_lock, nlocked, configVars, cacheVars,
                       limiterVars, now, pipelineVars, apiVars>>

\* time.time() advances.
TickLocked ==
    /\ now < MaxLockedClock
    /\ now' = now + 1
    /\ UNCHANGED <<cacheVars, limiterVars, pipelineVars, apiVars, concVars>>

NextLocked ==
    \/ TickLocked
    \/ \E t \in LimiterThreads : LimiterCall(t)
    \/ \E t \in LimiterThreads : LimiterAcquire(t)
    \/ \E t \in LimiterThreads : LimiterLocked(t)
    \/ \E t \in LimiterThreads : LimiterUpdateLimits(t)

---------------------------------------------------------------------------
(* Specifications.                                                         *)

vars == <<_cache, _metadata, _stats, file, last, nops, now,
          clients, shadow, calls, pipelineVars, apiVars, concVars>>

Init ==
    /\ InitCache /\ InitLimiter /\ InitPipeline /\ InitApi
    /\ InitConfig /\ InitLocked

SpecConfig == Init /\ [][NextConfig]_vars

SpecLocked == Init /\ [][NextLocked]_vars

SpecCache == Init /\ [][NextCache]_vars

\* The cache with a cleanup thread that keeps running: the loop of
\* _cleanup_worker catches every exception and sleeps again, so a round is
\* always taken in the end.
SpecCacheFair == Init /\ [][NextCacheFair]_vars /\ WF_vars(CleanupRound)

SpecLimiter == Init /\ [][NextLimiter]_vars

SpecFallback == Init /\ [][NextFallback]_vars

SpecApi == Init /\ [][NextApi]_vars

SpecPipeline == Init /\ [][NextPipeline]_vars

\* The same program with threads that are scheduled fairly: a thread that
\* can take a step eventually takes one (every call it makes returns or
\* raises).  Whether and when shutdown is called is left open.
SpecPipelineFair ==
    /\ Init
    /\ [][NextServing]_vars
    /\ WF_vars(WorkerStep)
    /\ \A r \in Requests : WF_vars(RequestStep(r))

SpecProxy == Init /\ [][NextProxy]_vars

---------------------------------------------------------------------------
(* Properties of the limiter.                                              *)

\* Every call the client made so far was for one endpoint type.
OneCategory(h) == \A i, j \in DOMAIN h : h[i].endpoint_type = h[j].endpoint_type

\* C9: for a client whose calls are all for one endpoint type with limit N
\* per window W: the first N calls inside one window are accepted; call
\* N+1 inside that window is rejected and sets blocked_until = now + 2W;
\* every later call before blocked_until is rejected; the first call at or
\* after blocked_until is accepted and the window then holds only that
\* call's timestamp.
C9_WindowThenBlock ==
    \A c \in Clients :
        LET h == calls[c]
        IN  (h # <<>> /\ OneCategory(h)) =>
            LET N == limits[h[1].endpoint_type].requests
                W == limits[h[1].endpoint_type].window
                InWindow(i) == h[i].at - h[1].at <= W
            IN  /\ \A i \in DOMAIN h : (i <= N /\ InWindow(i)) => h[i].ret
                /\ (Len(h) > N /\ InWindow(N + 1)) =>
                     LET b == h[N + 1].at + 2 * W
                     IN  /\ ~h[N + 1].ret
                         /\ h[N + 1].blocked_until = b
                         /\ \A j \in (N + 2)..Len(h) :
                              IF h[j].at < b
                              THEN ~h[j].ret /\ h[j].blocked_until = b
                              ELSE (\A m \in (N + 2)..(j - 1) : h[m].at < b)
                                   => (h[j].ret /\ h[j].requests = <<h[j].at>>)

\* A client went through the whole cycle on one endpoint type: N calls
\* accepted, call N+1 rejected, a call rejected while blocked, and a call
\* accepted once blocked_until was reached.
C9_Witness ==
    \E c \in Clients :
        LET h == calls[c]
        IN  /\ h # <<>> /\ OneCategory(h)
            /\ LET N == limits[h[1].endpoint_type].requests
                   W == limits[h[1].endpoint_type].window
               IN  /\ Len(h) = N + 3
                   /\ h[N + 1].at - h[1].at <= W
                   /\ ~h[N + 1].ret
                   /\ h[N + 2].at < h[N + 1].at + 2 * W
                   /\ ~h[N + 2].ret
                   /\ h[N + 3].at >= h[N + 1].at + 2 * W
                   /\ h[N + 3].ret

\* C10: the client's calls to another endpoint type never change the result
\* of its calls to this one: every call made in both runs (the one with and
\* the one without the 'api' calls) gets the same answer in both.
C10_CategoriesIndependent ==
    \A c \in Clients : \A i \in DOMAIN calls[c] :
        calls[c][i].endpoint_type # "api" => calls[c][i].ret = calls[c][i].ret2

\* The accepted calls of client c to endpoint type e made at a time in
\* lo..hi.
AcceptedIn(c, e, lo, hi) ==
    {i \in DOMAIN calls[c] :
        /\ calls[c][i].endpoint_type = e
        /\ calls[c][i].ret
        /\ calls[c][i].at >= lo /\ calls[c][i].at <= hi}

\* C11: for every client and endpoint type with limit N per window W, after
\* any mix of calls, at most N accepted calls of that type have their
\* timestamps in one interval shorter than W (the clock is an integer:
\* t..t+W-1).
C11_AtMostNPerWindow ==
    \A c \in Clients, e \in EndpointTypes, t \in 0..MaxClock :
        Cardinality(AcceptedIn(c, e, t, t + limits[e].window - 1))
            <= limits[e].requests

---------------------------------------------------------------------------
(* Properties of the cache.                                                *)

\* A step that is a call of method op (the clock's Tick leaves last alone).
CallStep(op) == nops' = nops + 1 /\ last'.op = op

\* C1: a successful set(k, v, ttl) with ttl > 0 followed immediately by
\* get(k), before the ttl has elapsed, returns v, adds exactly one hit and
\* leaves the miss counter unchanged.  (Every ttl of TTLs and default_ttl
\* are positive.)
C1_SetThenGetHits ==
    [][(/\ last.op = "set" /\ last.ok
        /\ CallStep("get") /\ last'.key = last.key
        /\ (DictHas(_metadata, last.key)
                => ~(DictGet(_metadata, last.key).expires_at < now)))
       => (/\ last'.ok
           /\ last'.value = last.value
           /\ _stats'.hits = _stats.hits + 1
           /\ _stats'.misses = _stats.misses)]_vars

\* Two calls were made, a set and then a get of the same key one tick
\* later, and the get was a hit.
C1_Witness ==
    /\ nops = 2 /\ last.op = "get" /\ last.ok /\ last.value \in Values
    /\ _stats.hits = 1 /\ _stats.misses = 0
    /\ DictGet(_metadata, last.key).created_at < now

\* C2: get(k) of an entry whose ttl has elapsed (expires_at is in the past)
\* returns not-found, adds one miss and no hit, removes the entry from both
\* maps, and memory usage drops by the entry's recorded size.
C2_ExpiredGetMisses ==
    [][(/\ CallStep("get")
        /\ DictHas(_cache, last'.key)
        /\ DictGet(_metadata, last'.key).expires_at < now)
       => (/\ ~last'.ok
           /\ last'.value = None
           /\ _stats'.misses = _stats.misses + 1
           /\ _stats'.hits = _stats.hits
           /\ ~DictHas(_cache', last'.key)
           /\ ~DictHas(_metadata', last'.key)
           /\ _stats'.memory_usage =
                 _stats.memory_usage - DictGet(_metadata, last'.key).size
           /\ _stats'.memory_usage = SumSizes(_metadata'))]_vars

\* A get that found nothing and left the store one entry smaller: the
\* entry was there and had expired.
C2_Witness ==
    /\ last.op = "get" /\ ~last.ok
    /\ Len(_cache) = last.before - 1

\* C3: when the store holds max_size entries and set inserts a new key
\* (without having to reclaim memory), exactly one entry is evicted, and no
\* entry of the store was accessed less recently than it.
C3_EvictsLeastRecentlyAccessed ==
    [][(/\ CallStep("set") /\ last'.ok
        /\ Len(_cache) = max_size
        /\ ~DictHas(_cache, last'.key)
        /\ _stats.memory_usage + _estimate_size(last'.value) <= max_memory_bytes)
       => LET gone == KeySet(_cache) \ KeySet(_cache')
          IN  /\ Cardinality(gone) = 1
              /\ \A g \in gone : \A k \in KeySet(_cache) :
                    DictGet(_metadata, g).last_accessed
                        <= DictGet(_metadata, k).last_accessed]_vars

\* C4: memory_usage is the sum of the recorded sizes of the entries, and
\* _cache and _metadata hold the same keys (each once).
C4_MemoryAccounting ==
    /\ _stats.memory_usage = SumSizes(_metadata)
    /\ KeySet(_cache) = KeySet(_metadata)
    /\ Cardinality(KeySet(_cache)) = Len(_cache)
    /\ Cardinality(KeySet(_metadata)) = Len(_metadata)

\* The store was rebuilt from a snapshot that restored two entries.
C4_Witness ==
    /\ last.op = "__init__" /\ last.ok
    /\ Len(_cache) = 2 /\ _stats.memory_usage > 0

\* C5: the store never holds more than max_size entries, in particular
\* after a set and after a restore from the snapshot.
C5_SizeBound == Len(_cache) <= max_size

\* A set of a new key into a full store: the store is still full.
C5_Witness ==
    /\ last.op = "set" /\ last.ok
    /\ last.before = max_size /\ Len(_cache) = max_size
    /\ _stats.evictions = 1

\* C6: memory_usage never exceeds max_memory_bytes, whether the last set
\* succeeded or failed.
C6_MemoryBound == _stats.memory_usage <= max_memory_bytes

\* A set that succeeded after memory reclamation: the store holds fewer
\* entries than before the call, and none was removed by _evict_lru.
C6_Witness ==
    /\ last.op = "set" /\ last.ok
    /\ Len(_cache) < last.before
    /\ _stats.evictions = 0

\* C7: a set that returns failure has no side effect: entries, metadata,
\* memory usage and counters are what they were before the call.
C7_FailedSetNoSideEffect ==
    [][(CallStep("set") /\ ~last'.ok)
       => (/\ _cache' = _cache
           /\ _metadata' = _metadata
           /\ _stats' = _stats)]_vars

\* C8: invalidate_pattern(p) removes exactly the keys p matches and returns
\* their number; the other entries keep value, metadata and order; memory
\* usage drops by the sizes removed and the counters are unchanged.
C8_InvalidateExactlyMatching ==
    [][CallStep("invalidate_pattern")
       => LET p == last'.key
              keep(e) == ~re_search(p, e.k)
              hit(e) == re_search(p, e.k)
          IN  /\ _cache' = SelectSeq(_cache, keep)
              /\ _metadata' = SelectSeq(_metadata, keep)
              /\ last'.n = Len(SelectSeq(_cache, hit))
              /\ _stats'.memory_usage =
                    _stats.memory_usage - SumSizes(SelectSeq(_metadata, hit))
              /\ _stats'.hits = _stats.hits
              /\ _stats'.misses = _stats.misses
              /\ _stats'.evictions = _stats.evictions]_vars

\* A pattern that removed one entry and left another: the key "ab" is
\* matched by ".b", which "a" and "b" are not.
C8_Witness ==
    /\ last.op = "invalidate_pattern" /\ last.key = <<".", "b">>
    /\ last.n = 1 /\ last.before = 2 /\ Len(_cache) = 1

---------------------------------------------------------------------------
(* Properties of the participation pipeline.                               *)

TerminalStatuses == {"success", "failed", "email_confirmation_pending"}

\* The statuses written for job j, oldest first.
Statuses(j) == [i \in DOMAIN audit[j].writes |-> audit[j].writes[i].status]

\* C12: for every job whose database calls all commit, the statuses written
\* for it come in the order pending, processing, terminal: 'pending' is
\* never written after 'processing', and nothing is written after a
\* terminal status.
C12_StatusOrder ==
    \A j \in DOMAIN audit :
        ~audit[j].db_failed =>
            \A i, k \in DOMAIN audit[j].writes :
                i < k =>
                    /\ ~(Statuses(j)[i] = "processing" /\ Statuses(j)[k] = "pending")
                    /\ Statuses(j)[i] \notin TerminalStatuses

\* The worker is done with job j and every database call made for it
\* committed.
Finished(j) == audit[j].done /\ ~audit[j].db_failed

\* Nothing is left to do for job j: it is finished, the request that
\* queued it has been answered, and no other job is for its opportunity.
Settled(j) ==
    /\ Finished(j)
    /\ \A r \in Requests : handlers[r].pc = "idle"
    /\ \A k \in DOMAIN jobs : k # j => jobs[k].id # jobs[j].id

\* C13: a job whose external call reports success ends with its
\* opportunity in status 'success' (no confirmation required) or
\* 'email_confirmation_pending' with the domain of the job's URL and a
\* timestamp recorded, and with exactly one history entry, tagged
\* 'participated'.
C13_SuccessOutcome ==
    \A j \in DOMAIN audit :
        Settled(j) /\ audit[j].result = "success" =>
            LET o == opportunities[jobs[j].id]
            IN  /\ audit[j].history = <<"participated">>
                /\ IF jobs[j].requires_email_confirmation
                   THEN /\ o.status = "email_confirmation_pending"
                        /\ o.confirmation_details.domain =
                               OpportunityRows[jobs[j].id].url[3]
                        /\ o.confirmation_details.timestamp >= 0
                   ELSE o.status = "success"

\* C14: a job whose external call raises on every attempt, or reports a
\* business failure, ends with its opportunity in status 'failed' and with
\* exactly one history entry, tagged 'failed'; the worker is then back at
\* the head of its loop or busy with a later job.
C14_FailureOutcome ==
    \A j \in DOMAIN audit :
        Settled(j) /\ audit[j].result \in {"raises", "failure"} =>
            /\ opportunities[jobs[j].id].status = "failed"
            /\ audit[j].history = <<"failed">>
            /\ worker.pc # "died"
            /\ worker.job = j => worker.pc \in {"loop", "get", "exited"}

\* C15: whichever step of a job fails, the worker marks the item done and
\* goes on looping: the worker thread ends only after the cancellation
\* signal was set, and never with a dequeued job not marked done.
C15_OnlyCancellationEndsLoop ==
    /\ worker.pc # "died"
    /\ worker.pc = "exited" => stop_worker_event /\ in_flight = {}

\* C16: the jobs started so far are a prefix of the jobs enqueued, in the
\* order of enqueuing (job n is the n-th one put on the queue), and a job
\* that was started is not on the queue again.
C16_StartedIsPrefix ==
    /\ Len(started) <= Len(jobs)
    /\ \A i \in DOMAIN started : started[i] = i
    /\ \A i \in DOMAIN participation_queue :
          \A k \in DOMAIN started : participation_queue[i] # started[k]

\* Two jobs were started, the first of which failed and is done.
C16_Witness ==
    /\ Len(started) = 2
    /\ audit[1].done
    /\ audit[1].result \in {"raises", "failure", "malformed"}

\* C17: at most one job is between its dequeue and its task_done, and it
\* is the job the worker thread holds; proxy_index changes only in the
\* worker's step that calls get_proxy.
C17_OneJobInFlight ==
    /\ [](Cardinality(in_flight) <= 1 /\ in_flight \subseteq {worker.job})
    /\ [][proxy_index' # proxy_index =>
            /\ worker.pc = "call"
            /\ worker'.pc \in {"terminal", "except"}
            /\ handlers' = handlers]_vars

\* The second job is in flight, the first is done, and the cursor has
\* moved once, for the first job.
C17_Witness ==
    /\ Len(started) = 2
    /\ in_flight = {2}
    /\ audit[1].done
    /\ proxy_index = 1

\* The worker wrote a terminal status for job j.
ReachedTerminal(j) ==
    \E i \in DOMAIN audit[j].writes :
        /\ audit[j].writes[i].by = "worker"
        /\ audit[j].writes[i].status \in TerminalStatuses

SequentialSoFar(m) ==
    \A i \in 1..m :
        /\ proxy_log[i].config.enabled
        /\ proxy_log[i].config.rotation_mode = "sequential"
        /\ proxy_log[i].config.list = proxy_log[1].config.list
        /\ proxy_log[i].config.list # <<>>

\* C19: with proxies enabled, sequential rotation and an unchanged list of
\* n >= 1 proxies, the k-th call of get_proxy (k from 0, the m-th of the
\* log with m = k + 1) returns list[k mod n] and leaves the cursor at
\* (k + 1) mod n.
C19_SequentialRotation ==
    \A m \in DOMAIN proxy_log :
        SequentialSoFar(m) =>
            LET list == proxy_log[m].config.list
                n == Len(list)
            IN  /\ ~proxy_log[m].raises
                /\ proxy_log[m].proxy = list[((m - 1) % n) + 1]
                /\ proxy_log[m].proxy_index = m % n

\* Four calls with the list of three proxies returned the proxies at
\* indices 0, 1, 2, 0.
C19_Witness ==
    /\ Len(proxy_log) = 4
    /\ SequentialSoFar(4)
    /\ [i \in 1..4 |-> proxy_log[i].proxy] = <<"p0", "p1", "p2", "p0">>
    /\ proxy_index = 1

\* C20: a job is put on the queue only by a request for which is_allowed
\* returned true; a request answered 429 enqueues nothing and changes no
\* opportunity status; a request the limiter accepts, for an opportunity
\* that exists and with the database calls committing, enqueues its job
\* and is answered 202.
C20_OnlyAllowedRequestsEnqueue ==
    /\ [][jobs' # jobs =>
            \E r \in Requests :
                /\ handlers[r].pc = "body" /\ handlers[r].allowed
                /\ handlers'[r].pc = "status"
                /\ Len(participation_queue') = Len(participation_queue) + 1]_vars
    /\ [][\A r \in Requests :
            handlers'[r] # handlers[r] /\ handlers'[r].response = 429 =>
                /\ ~handlers'[r].allowed
                /\ jobs' = jobs /\ participation_queue' = participation_queue
                /\ opportunities' = opportunities]_vars
    /\ [](\A r \in Requests :
            handlers[r].pc = "idle" /\ handlers[r].allowed /\ db_failures = 0 =>
                handlers[r].response \in {202, 404})

---------------------------------------------------------------------------
(* Properties of the cache, continued.                                     *)

\* C21: a round of the cleanup thread whose save fails leaves the store as
\* cleanup_expired alone leaves it (entries, metadata and counters), and
\* an __init__ whose load fails on a file that does not parse leaves the
\* store a new store without persistence has.
C21_PersistenceFailSoft ==
    [][nops' = nops + 1 =>
        /\ last'.op = "_cleanup_worker" /\ ~last'.ok =>
              Self' = cleanup_expired(Self, now).s
        /\ last'.op = "__init__" /\ file.state = "corrupt" =>
              Self' = EmptyStore(now)]_vars

\* __init__ has just run on a file that a failed write left with entries
\* in it, while the store held entries: the store is empty.
C21_Witness ==
    /\ last.op = "__init__"
    /\ last.before > 0
    /\ file.state = "corrupt"
    /\ file.data # <<>>
    /\ _cache = <<>>

\* C22: every call of is_allowed returns a boolean; a call with an endpoint
\* type that is not configured is decided with the limits of 'api': it is
\* accepted exactly when the client is not blocked and fewer than
\* limits.api.requests of its timestamps are within limits.api.window, and
\* a call over the limit returns false and sets the block.
C22_UnknownTypeUsesApiLimits ==
    [][\A c \in Clients :
        calls'[c] # calls[c] =>
            LET e == calls'[c][Len(calls'[c])]
                before == ClientData(clients, c)
                kept == DropOld(before.requests, now - limits.api.window)
            IN  /\ e.ret \in BOOLEAN
                /\ e.endpoint_type \notin DOMAIN limits =>
                      /\ e.ret = (now >= before.blocked_until
                                  /\ Len(kept) < limits.api.requests)
                      /\ e.ret => e.requests = Append(kept, now)
                      /\ ~e.ret /\ now >= before.blocked_until =>
                            /\ e.requests = kept
                            /\ e.blocked_until = now + 2 * limits.api.window]_vars

\* A call with the unconfigured type was rejected at the limit of 'api',
\* with two accepted calls of that type before it.
C22_Witness ==
    \E c \in Clients :
        /\ Len(calls[c]) >= 3
        /\ \A i \in 1..3 : calls[c][i].endpoint_type = "export"
        /\ calls[c][1].ret /\ calls[c][2].ret /\ ~calls[c][3].ret
        /\ calls[c][3].blocked_until = calls[c][3].at + 2 * limits.api.window

---------------------------------------------------------------------------
(* Properties of the HTTP API.                                             *)

\* C23: a GET /api/data answered 200 carries the profile that is active
\* when the request is made and the opportunities of that profile, whether
\* the response was built for the request or came out of the cache.
C23_DataOfActiveProfile ==
    api_last.route = "data" /\ api_last.status = 200 =>
        /\ api_last.profile = api_last.active
        /\ api_last.opportunities = get_opportunities(profiles, api_last.active)

\* C24: a request to the API whose X-API-Key header is absent or is not
\* the configured key is answered 401 and its handler is not run.
C24_UnauthorizedIs401 ==
    api_last.route # "none" /\ api_last.key # API_KEY =>
        api_last.status = 401 /\ ~api_last.handler_ran

\* The profiles marked active.
ActiveProfiles(p) == {q \in DOMAIN p : p[q].is_active}

\* C25: exactly one profile is marked active at any time; activating p
\* makes p the only active profile, which get_active_profile then returns;
\* deleting the active profile makes the remaining profile with the lowest
\* id active; deleting when one profile is left is refused and changes
\* nothing.
C25_ExactlyOneActive ==
    /\ [](Cardinality(ActiveProfiles(profiles)) = 1)
    /\ [][napi' # napi /\ api_last'.route = "activate_profile" =>
            /\ ActiveProfiles(profiles') = {api_last'.id}
            /\ get_active_profile(profiles') = api_last'.id]_vars
    /\ [][napi' # napi /\ api_last'.route = "delete_profile" =>
            /\ Cardinality(DOMAIN profiles) = 1 =>
                  api_last'.status = 400 /\ profiles' = profiles
            /\ /\ Cardinality(DOMAIN profiles) > 1
               /\ api_last'.id \in ActiveProfiles(profiles)
               => ActiveProfiles(profiles') = {first_profile(profiles')}]_vars

\* C26: the order of _cache reflects recency of access: of two keys of the
\* store, the one whose last_accessed is older comes earlier in the order
\* (so a set on a present key leaves it at the most-recently-used end).
C26_OrderReflectsRecency ==
    \A i, j \in 1..Len(_cache) :
        DictGet(_metadata, _cache[i].k).last_accessed
            < DictGet(_metadata, _cache[j].k).last_accessed
        => i < j

\* The position of key k in the order of the store.
PositionOf(k) == CHOOSE i \in 1..Len(_cache) : _cache[i].k = k

\* The entries other than the key being set that a step removed from the
\* store, and those of them that had not expired.
EvictedBy(key) == (KeySet(_cache) \ KeySet(_cache')) \ {key}
EvictedLive(key) ==
    {g \in EvictedBy(key) : ~Expired(DictGet(_metadata, g), now)}

\* C27: a set that succeeds after reclaiming memory (and evicts nothing for
\* the entry count) removes an unexpired entry only when every expired one
\* is gone, takes the unexpired ones in least-recently-used order, and the
\* last one it removed was needed: with that entry still stored, the new
\* value (replacing the old value of its key) would not fit.
C27_ReclaimsNoMoreThanNeeded ==
    [][(/\ CallStep("set") /\ last'.ok
        /\ _stats.memory_usage + _estimate_size(last'.value) > max_memory_bytes
        /\ _stats'.evictions = _stats.evictions)
       => LET key == last'.key
              live == EvictedLive(key)
          IN  /\ live # {} =>
                    \A e \in KeySet(_cache) \ {key} :
                        Expired(DictGet(_metadata, e), now) => e \in EvictedBy(key)
              /\ \A g \in live : \A k \in KeySet(_cache') \ {key} :
                    DictGet(_metadata, g).last_accessed
                        <= DictGet(_metadata, k).last_accessed
              /\ live # {} =>
                    LET g == CHOOSE x \in live :
                                 \A y \in live : PositionOf(y) <= PositionOf(x)
                    IN  _stats'.memory_usage + DictGet(_metadata, g).size
                            > max_memory_bytes]_vars

---------------------------------------------------------------------------
(* Properties of the retried call, of termination and of the proxy cursor. *)

AllRaised == [i \in 1..stop_after_attempt |-> "raises"]

\* The attempts of a call follow the retry policy: between 1 and 3 of them,
\* each one after the first made because the one before raised, and the
\* exception of the third one raised to the worker when all three raised.
RetryPolicy(w) ==
    /\ Len(w.tries) \in 1..stop_after_attempt
    /\ \A i \in 1..Len(w.tries) : w.tries[i] # "raises" => i = Len(w.tries)
    /\ w.tries = AllRaised <=> w.exception = stop_after_attempt
    /\ w.tries = AllRaised => w.pc = "except" /\ w.result = "raises"
    /\ w.tries # AllRaised => w.exception = 0

\* C28: for each job the external client is invoked 1 to 3 times, again
\* only after an attempt that raised and never after one that returned;
\* when all three raise, the third exception reaches the handler of the
\* job, and the job becomes 'failed'.
C28_RetriesThenFails ==
    /\ [][worker.pc = "call" /\ worker'.pc # "call" => RetryPolicy(worker')]_vars
    /\ [][(/\ worker.pc = "except" /\ worker.tries = AllRaised
           /\ worker'.pc # "except")
          => opportunities'[jobs[worker.job].id].status = "failed"]_vars

\* C29: with threads scheduled fairly, every job put on the queue while the
\* worker is running and shutdown has not been signalled eventually has a
\* terminal status written for it by the worker and its task_done.
C29_EveryJobTerminates ==
    \A j \in Requests :
        (j \in DOMAIN jobs) ~>
            (j \in DOMAIN audit /\ audit[j].done /\ ReachedTerminal(j))

\* The cursor get_proxy found at its m-th call.
CursorRead(m) == IF m = 1 THEN 0 ELSE proxy_log[m - 1].proxy_index

\* C30: at every call of get_proxy in sequential mode (proxies enabled, list
\* not empty) the cursor it reads is an index of the list as configured at
\* that call, also after the list was shortened, and the call does not
\* raise.
C30_CursorAlwaysValid ==
    \A m \in DOMAIN proxy_log :
        LET cfg == proxy_log[m].config
        IN  cfg.enabled /\ cfg.rotation_mode = "sequential" /\ cfg.list # <<>> =>
                /\ CursorRead(m) < Len(cfg.list)
                /\ ~proxy_log[m].raises

---------------------------------------------------------------------------
(* Properties of ConfigHandler and of the limiter under threads.           *)

\* C31: no thread inside save_config, add_proxy or delete_proxy waits for
\* the configuration lock while holding it itself (from where it could
\* never go on, and after which no get_config or get_proxies could).
C31_NoSelfDeadlock ==
    \A t \in ConfigThreads :
        cthreads[t].pc \in AcquirePcs => config_lock # t

---------------------------------------------------------------------------
(* Properties of shutdown, continued.                                      *)

\* The jobs that are in the queue.
QueuedJobs == {participation_queue[i] : i \in DOMAIN participation_queue}

\* Job j is the only job for its opportunity, whose status is then the
\* status of the job.
OnlyJobOfOpportunity(j) ==
    \A k \in DOMAIN jobs : k # j => jobs[k].id # jobs[j].id

\* C32: once stop_worker_event is set the worker begins no new queue wait:
\* its next loop test ends the thread, so that the only job it can still
\* start is one handed to the wait it was in (a job is started only from
\* that wait).  After it has exited, whatever is queued, it takes no
\* further step and starts nothing; the jobs left in the queue have no
\* status written by the worker and keep the status 'pending'.
C32_ExitsAfterAtMostOneJob ==
    /\ [][stop_worker_event /\ worker.pc = "loop" /\ worker'.pc # "loop"
            => worker'.pc = "exited"]_vars
    /\ [][started' # started => worker.pc = "get"]_vars
    /\ [][worker.pc = "exited" => worker' = worker /\ started' = started]_vars
    /\ [](worker.pc = "exited" =>
            \A j \in QueuedJobs :
                /\ \A i \in DOMAIN audit[j].writes : audit[j].writes[i].by # "worker"
                /\ OnlyJobOfOpportunity(j) =>
                       opportunities[jobs[j].id].status = "pending")

\* Shutdown has returned: the worker finished job 1 and exited, and job 2,
\* for another opportunity, is still in the queue, 'pending'.
C32_Witness ==
    /\ shutdown_pc = "returned" /\ worker.pc = "exited"
    /\ started = <<1>> /\ audit[1].done
    /\ participation_queue = <<2>>
    /\ OnlyJobOfOpportunity(2)
    /\ opportunities[jobs[2].id].status = "pending"

---------------------------------------------------------------------------
(* Properties of the limiter, continued.                                   *)

\* Client c made a call in this step and it was rejected.
RejectedStep(c) ==
    /\ Len(calls'[c]) = Len(calls[c]) + 1
    /\ ~calls'[c][Len(calls'[c])].ret

\* C33: a rejected call changes nothing for the other clients; rejected
\* because the client is blocked, it leaves the client's timestamps and
\* blocked_until as they were; rejected because the limit is reached, it
\* adds no timestamp (the window is left pruned of what is older than the
\* call's window) and sets blocked_until to now + 2 * window.
C33_RejectedCallFrame ==
    [][\A c \in Clients : RejectedStep(c) =>
          LET before == ClientData(clients, c)
              window == limits[calls'[c][Len(calls'[c])].endpoint_type].window
          IN  /\ \A d \in Clients \ {c} :
                    ClientData(clients', d) = ClientData(clients, d)
              /\ IF now < before.blocked_until
                 THEN clients'[c] = before
                 ELSE /\ clients'[c].requests =
                            DropOld(before.requests, now - window)
                      /\ clients'[c].blocked_until = now + 2 * window]_vars

\* A client was rejected at the limit and then, still blocked, once more:
\* the second rejection left blocked_until where the first had set it.
C33_Witness ==
    \E c \in Clients :
        LET n == Len(calls[c])
        IN  /\ n >= 2
            /\ ~calls[c][n].ret /\ ~calls[c][n - 1].ret
            /\ calls[c][n - 1].blocked_until =
                  calls[c][n - 1].at + 2 * limits[calls[c][n - 1].endpoint_type].window
            /\ calls[c][n].at < calls[c][n - 1].blocked_until
            /\ calls[c][n].at > calls[c][n - 1].at
            /\ clients[c].blocked_until = calls[c][n - 1].blocked_until

\* The threads that are at a statement which reads or writes the state of
\* the limiter: the body of a with block, or the assignment of
\* update_limits.
Accessing == {t \in LimiterThreads : lthreads[t].pc \in {"locked", "update_limits"}}

\* C34: every read and write of the limiter's state (clients, blocked_until,
\* limits) is made by the thread that holds the lock, so that at most one
\* thread is at such a statement at a time.
C34_StateOnlyUnderLock ==
    /\ \A t \in Accessing : limiter_lock = t
    /\ Cardinality(Accessing) <= 1

\* C35: the timestamps recorded for a client are in non-decreasing order
\* from the front of its window to the back.
C35_TimestampsOrdered ==
    \A c \in DOMAIN clients :
        \A i, j \in DOMAIN clients[c].requests :
            i < j => clients[c].requests[i] <= clients[c].requests[j]

---------------------------------------------------------------------------
(* Properties of the snapshot file and of the counters, continued.         *)

\* The entries of the store s whose recorded expiry is after current_time,
\* in the order of _cache, each with its value and its metadata.
LiveEntries(s, current_time) ==
    LET live == SelectSeq(s.cache,
                    LAMBDA e : DictGet(s.metadata, e.k).expires_at > current_time)
    IN  [i \in DOMAIN live |->
            [k |-> live[i].k, value |-> live[i].v,
             metadata |-> DictGet(s.metadata, live[i].k)]]

\* The entries of a snapshot file whose recorded expiry is after
\* current_time, in the order of the file.
FileEntries(cache_data, current_time) ==
    LET live == SelectSeq(cache_data,
                    LAMBDA e : e.v.metadata.expires_at > current_time)
    IN  [i \in DOMAIN live |->
            [k |-> live[i].k, value |-> live[i].v.value,
             metadata |-> live[i].v.metadata]]

\* C36: a snapshot that was saved holds exactly the entries that were
\* unexpired when it was saved, each with the value, the metadata and the
\* position it had in the store; and a store loaded from a snapshot holds
\* exactly the entries of the file that are unexpired at the load, with the
\* same value, metadata and order, its memory usage being the sum of their
\* sizes.
C36_SnapshotRoundTrip ==
    [][/\ (last'.op = "_cleanup_worker" /\ last'.ok /\ nops' = nops + 1)
            => FileEntries(file'.data, 0) = LiveEntries(Self, now)
       /\ (last'.op = "__init__" /\ last'.ok /\ nops' = nops + 1)
            => /\ LiveEntries([cache |-> _cache', metadata |-> _metadata',
                               stats |-> _stats'], 0)
                  = FileEntries(file.data, now)
               /\ Len(_metadata') = Len(_cache')
               /\ _stats'.memory_usage = SumSizes(_metadata')]_vars

\* An entry for key whose ttl has elapsed, as cleanup_expired tests it.
ExpiredEntry(key) ==
    /\ DictHas(_metadata, key)
    /\ Expired(DictGet(_metadata, key), now)

\* A step that is one run of cleanup_expired, called directly or by the
\* cleanup thread.
CleanupStep ==
    /\ last'.op \in {"cleanup_expired", "_cleanup_worker"}
    /\ last' # last \/ _cache' # _cache

\* C37: with the cleanup thread running, an entry whose ttl has elapsed is
\* in the end no longer in the store, and the memory usage is the sum of the
\* sizes of the entries that are; each run of cleanup_expired removes exactly
\* the expired entries, keeps the others with their values, metadata and
\* order, returns the number it removed and leaves the hit, miss and
\* eviction counters as they were.
C37_ExpiredEventuallyRemoved ==
    /\ \A key \in Keys : ExpiredEntry(key) ~> ~ExpiredEntry(key)
    /\ [](_stats.memory_usage = SumSizes(_metadata))
    /\ [][CleanupStep =>
            /\ _cache' = SelectSeq(_cache, LAMBDA e : ~ExpiredEntry(e.k))
            /\ _metadata' = SelectSeq(_metadata, LAMBDA e : ~ExpiredEntry(e.k))
            /\ last'.n = Len(_cache) - Len(_cache')
            /\ _stats'.hits = _stats.hits
            /\ _stats'.misses = _stats.misses
            /\ _stats'.evictions = _stats.evictions]_vars

\* A round of the cleanup thread has just removed at least one expired
\* entry.
C37_Witness ==
    /\ last.op = "_cleanup_worker"
    /\ last.n >= 1
    /\ last.before = Len(_cache) + last.n

\* The unexpired entries of the store that the step removes.
RemovedLive ==
    {i \in DOMAIN _cache :
        /\ ~Expired(DictGet(_metadata, _cache[i].k), now)
        /\ ~DictHas(_cache', _cache[i].k)}

\* C38: the eviction counter counts the unexpired entries that set removes
\* to make room, for the bound on the number of entries and for the bound
\* on memory alike; clear and the construction of the store put it at 0 and
\* no other operation changes it.
C38_EvictionsCountLru ==
    [][nops' = nops + 1 =>
        CASE last'.op = "set" ->
                _stats'.evictions = _stats.evictions + Cardinality(RemovedLive)
          [] last'.op \in {"clear", "__init__"} -> _stats'.evictions = 0
          [] OTHER -> _stats'.evictions = _stats.evictions]_vars

\* The step in which thread t runs the body of its with block and returns.
LockedStep(t) ==
    /\ lthreads[t].pc = "locked"
    /\ lthreads'[t].pc = "idle"

\* C39: clear_client(c) leaves no record for c, neither timestamps nor a
\* block, and leaves the records of the other clients as they were; a call
\* of is_allowed for a client without timestamps and without a block is
\* accepted, whatever the endpoint type.
C39_ClearForgetsClient ==
    [][\A t \in LimiterThreads :
          LockedStep(t) =>
            LET th == lthreads[t]
            IN  /\ th.op = "clear_client" =>
                      /\ th.client_id \notin DOMAIN clients'
                      /\ ClientData(clients', th.client_id)
                            = ClientData(<<>>, th.client_id)
                      /\ clients' = [d \in DOMAIN clients \ {th.client_id}
                                        |-> clients[d]]
                /\ ( /\ th.op = "is_allowed"
                     /\ ClientData(clients, th.client_id)
                            = ClientData(<<>>, th.client_id)
                     /\ \A e \in DOMAIN self_limits :
                            self_limits[e].requests >= 1 )
                      => lthreads'[t].ret = "True"]_vars

\* An accepted call had made a record with a timestamp, and a clear_client
\* that returned since has left the limiter without any record.
C39_Witness ==
    /\ clients = <<>>
    /\ lthreads[1].ret = "True"
    /\ lthreads[2].ret = "None"

---------------------------------------------------------------------------
(* Properties of get_proxy, continued.                                     *)

\* get_proxy found proxies disabled or the list empty in the config it read.
NoProxyConfigured(cfg) == ~cfg.enabled \/ cfg.list = <<>>

\* C40: a call of get_proxy made with proxies disabled or with an empty
\* list returns no proxy and leaves the cursor where it was; a call in
\* random mode with a list that is not empty returns a member of that list
\* and leaves the cursor where it was.
C40_NoProxyAndRandomKeepCursor ==
    [][proxy_log' # proxy_log =>
        LET call == proxy_log'[Len(proxy_log')]
        IN  /\ NoProxyConfigured(call.config) =>
                  /\ call.proxy = "None"
                  /\ ~call.raises
                  /\ proxy_index' = proxy_index
            /\ ( /\ ~NoProxyConfigured(call.config)
                 /\ call.config.rotation_mode = "random" ) =>
                  /\ \E i \in DOMAIN call.config.list :
                         call.proxy = call.config.list[i]
                  /\ ~call.raises
                  /\ proxy_index' = proxy_index]_vars

\* With the cursor away from 0, one call found the list empty and another
\* chose at random in a list of three.
C40_Witness ==
    /\ proxy_index # 0
    /\ \E m, n \in DOMAIN proxy_log :
          /\ m < n
          /\ proxy_log[m].proxy_index # 0
          /\ proxy_log[m].config.enabled
          /\ proxy_log[m].config.rotation_mode = "random"
          /\ Len(proxy_log[m].config.list) = 3
          /\ proxy_log[m].proxy # "None"
          /\ proxy_log[n].config.enabled
          /\ proxy_log[n].config.list = <<>>
          /\ proxy_log[n].proxy = "None"

====
